---------------------------- MODULE Spec2Model ----------------------------
(***************************************************************************)
(* IIUC bus finder: the student dashboard (src/src/pages/                  *)
(* StudentDashboard.tsx) and the Google OAuth wrappers (src/src/lib/       *)
(* supabase.ts and its two other revisions, src/unnamed/part_000 and       *)
(* src/unnamed/part_001).                                                  *)
(*                                                                         *)
(* JavaScript strings that the code inspects (toLowerCase, includes, trim, *)
(* length) are sequences of one-character strings.  Text that is only      *)
(* produced (the user-facing messages) is a sequence of segments: literal  *)
(* TLA+ strings, with the interpolated value as a segment of its own.      *)
(*                                                                         *)
(* An async function is an invocation record: it issues a request, the     *)
(* backend serves it (Serve...), and the continuation after the await runs *)
(* to the next await in one action (run-to-completion).  React re-renders  *)
(* after every state update before the next event is handled (Render).     *)
(***************************************************************************)
EXTENDS Integers, Sequences, FiniteSets, TLC

\* ------------------------------------------------------------- bounds
MaxRows    == 2   \* rows of bus_schedules
MaxTermLen == 2   \* characters typed in the search box
MaxInv     == 2   \* async invocations in flight at once
MaxTimers  == 1   \* pending timers of one kind
MaxPosts   == 1   \* rows the student adds to complaints
MaxNotes   == 2   \* rows the student adds to feedback
MaxCallbacks == 2 \* handleGoogleCallback invocations overlapping on the callback page

IdPrefix == 8      \* user.id.substring(0, 8)

\* JavaScript null / undefined where a string is expected: a value that is no
\* string of the model (strings are sequences of one-character strings)
Null == <<"null">>

\* the outcome of evaluating an expression: a value, or an exception thrown
Threw == [threw |-> TRUE]
Ok(v) == [threw |-> FALSE, value |-> v]

\* ------------------------------------------------------------ strings
RECURSIVE SeqsUpTo(_, _)
SeqsUpTo(S, n) ==
    IF n = 0 THEN {<<>>}
    ELSE LET shorter == SeqsUpTo(S, n - 1)
         IN  shorter \cup {Append(s, c) : s \in shorter, c \in S}

\* String.prototype.toLowerCase, on the letters the model types
ToLowerChar(c) ==
    CASE c = "A" -> "a"
      [] c = "B" -> "b"
      [] c = "U" -> "u"
      [] OTHER   -> c

toLowerCase(s) == [i \in 1..Len(s) |-> ToLowerChar(s[i])]

\* String.prototype.includes: t occurs in s as a contiguous substring
includes(s, t) ==
    \E k \in 0..(Len(s) - Len(t)) : SubSeq(s, k + 1, k + Len(t)) = t

IsSpace(c) == c = " "

RECURSIVE trimStart(_)
trimStart(s) ==
    IF s # <<>> /\ IsSpace(Head(s)) THEN trimStart(Tail(s)) ELSE s

RECURSIVE trimEnd(_)
trimEnd(s) ==
    IF s # <<>> /\ IsSpace(s[Len(s)]) THEN trimEnd(SubSeq(s, 1, Len(s) - 1)) ELSE s

\* String.prototype.trim
trim(s) == trimEnd(trimStart(s))

\* --------------------------------------------------- schedule filtering
\* mutant: the search term is not lower-cased
LowerIncludes_TermAsTyped(x, term) ==
    IF x = Null THEN Threw ELSE Ok(includes(toLowerCase(x), term))

\* x.toLowerCase().includes(term.toLowerCase()); a TypeError when x is null
LowerIncludes(x, term) ==
    IF x = Null THEN Threw ELSE Ok(includes(toLowerCase(x), toLowerCase(term)))

\* a || b with JavaScript's short circuit: b is not evaluated when a is true,
\* and an exception in a propagates
OrElse(a, b) == IF a.threw THEN Threw ELSE IF a.value THEN a ELSE b

\* mutant: the optional column remarks is searched too
matchesSearch_Remarks(schedule, term) ==
    IF term = <<>> THEN Ok(TRUE)
    ELSE OrElse(LowerIncludes(schedule.time, term),
         OrElse(LowerIncludes(schedule.startingPoint, term),
         OrElse(LowerIncludes(schedule.route, term),
         OrElse(LowerIncludes(schedule.endPoint, term),
                LowerIncludes(schedule.remarks, term)))))

matchesSearch(schedule, term) ==
    IF term = <<>> THEN Ok(TRUE)
    ELSE OrElse(LowerIncludes(schedule.time, term),
         OrElse(LowerIncludes(schedule.startingPoint, term),
         OrElse(LowerIncludes(schedule.route, term),
                LowerIncludes(schedule.endPoint, term))))

matchesFilter(schedule, ftype) ==
    \/ ftype = "all"
    \/ (ftype = "regular" /\ schedule.scheduleType = "Regular")
    \/ (ftype = "friday" /\ schedule.scheduleType = "Friday")

\* mutant: matchesSearch || matchesFilter
KeepSchedule_Either(schedule, term, ftype) ==
    LET ms == matchesSearch(schedule, term)
    IN  IF ms.threw THEN Threw ELSE Ok(ms.value \/ matchesFilter(schedule, ftype))

\* the callback of schedules.filter: return matchesSearch && matchesFilter
KeepSchedule(schedule, term, ftype) ==
    LET ms == matchesSearch(schedule, term)
    IN  IF ms.threw THEN Threw ELSE Ok(ms.value /\ matchesFilter(schedule, ftype))

\* mutant: the kept elements are collected in front (unshift for push)
RECURSIVE FilterSchedules_Unshift(_, _, _)
FilterSchedules_Unshift(list, term, ftype) ==
    IF list = <<>> THEN Ok(<<>>)
    ELSE LET k == KeepSchedule(Head(list), term, ftype)
         IN  IF k.threw THEN Threw
             ELSE LET rest == FilterSchedules_Unshift(Tail(list), term, ftype)
                  IN  IF rest.threw THEN Threw
                      ELSE IF k.value THEN Ok(rest.value \o <<Head(list)>>) ELSE rest

\* Array.prototype.filter: the elements kept, in order; an exception thrown by
\* the callback aborts the call
RECURSIVE FilterSchedules(_, _, _)
FilterSchedules(list, term, ftype) ==
    IF list = <<>> THEN Ok(<<>>)
    ELSE LET k == KeepSchedule(Head(list), term, ftype)
         IN  IF k.threw THEN Threw
             ELSE LET rest == FilterSchedules(Tail(list), term, ftype)
                  IN  IF rest.threw THEN Threw
                      ELSE IF k.value THEN Ok(<<Head(list)>> \o rest.value) ELSE rest

\* ------------------------------------------------------- backend rows
\* code units of the characters the model uses, for ORDER BY on text
CharCode(c) ==
    CASE c = " " -> 32 [] c = "." -> 46 [] c = "_" -> 95
      [] c = "A" -> 65 [] c = "B" -> 66 [] c = "U" -> 85
      [] c = "a" -> 97 [] c = "b" -> 98 [] c = "c" -> 99 [] c = "d" -> 100
      [] c = "e" -> 101 [] c = "h" -> 104 [] c = "i" -> 105 [] c = "l" -> 108
      [] c = "n" -> 110 [] c = "o" -> 111 [] c = "p" -> 112 [] c = "r" -> 114
      [] c = "t" -> 116 [] c = "u" -> 117 [] c = "v" -> 118 [] c = "z" -> 122
      [] OTHER -> 120

RECURSIVE LexLeq(_, _)
LexLeq(s, t) ==
    IF s = <<>> THEN TRUE
    ELSE IF t = <<>> THEN FALSE
    ELSE IF CharCode(Head(s)) # CharCode(Head(t)) THEN CharCode(Head(s)) < CharCode(Head(t))
    ELSE LexLeq(Tail(s), Tail(t))

\* the orders in which a set of rows can come back under ORDER BY time (ties
\* in any order)
OrderedByTime(rows) ==
    {q \in [1..Cardinality(rows) -> rows] :
        /\ \A i, j \in DOMAIN q : i # j => q[i] # q[j]
        /\ \A i, j \in DOMAIN q : i < j => LexLeq(q[i].time, q[j].time)}

Texts == [hit |-> <<"A", "b">>, other |-> <<"b", "B">>]

\* a row of bus_schedules (interface BusScheduleDB): the text <<A, b>> in the
\* column `hit` and <<b, B>> in the other three searched columns
ScheduleRow(hit, type, gender) ==
    [id |-> <<hit, type, gender>>,
     time |-> IF hit = "time" THEN Texts.hit ELSE Texts.other,
     starting_point |-> IF hit = "starting_point" THEN Texts.hit ELSE Texts.other,
     route |-> IF hit = "route" THEN Texts.hit ELSE Texts.other,
     end_point |-> IF hit = "end_point" THEN Texts.hit ELSE Texts.other,
     direction |-> "CityToIIUC",
     gender |-> gender,
     bus_type |-> Null,
     remarks |-> IF hit = "none" THEN Texts.hit ELSE Null,
     description |-> Null,
     schedule_type |-> type]

ScheduleRows ==
    {ScheduleRow(h, t, Null) :
        h \in {"time", "starting_point", "route", "end_point", "none"},
        t \in {"Regular", "Friday"}}
    \cup {ScheduleRow("none", "Regular", <<"M">>), ScheduleRow("time", "Friday", <<"F">>)}

SearchChars == {"a", "A", "b"}
SearchTerms == SeqsUpTo(SearchChars, MaxTermLen)
FilterTypes == {"all", "regular", "friday"}

\* the value undefined, and the text a template literal makes of it
Undefined == <<"undefined">>
UndefinedText == <<"u", "n", "d", "e", "f", "i", "n", "e", "d">>

\* `${v}`
Interpolated(v) == IF v = Undefined THEN UndefinedText ELSE v

\* useAuth().userProfile while the profile is not loaded: null, so that every
\* userProfile?.f is undefined (ids are kept as the text .eq('user_id', v) sends)
NoProfile == [id |-> "undefined", gender |-> Undefined, name |-> Undefined,
              mobile |-> Undefined, university_id |-> Undefined]

\* supabase.auth.getSession() has no session
NoSession == [none |-> TRUE]

Student == [id |-> "u1", gender |-> <<"M">>, name |-> <<"a">>,
            mobile |-> <<"b">>, university_id |-> <<"c">>]

\* ------------------------------------------------------------- state
VARIABLES
    db_bus_schedules,   \* backend table bus_schedules: a set of rows
    db_feedback,        \* backend table feedback: rows in insertion order
    db_complaints,      \* backend table complaints: rows in insertion order
    db_users,           \* backend table users: a set of rows
    authSession,        \* what supabase.auth.getSession() holds
    configured,         \* VITE_SUPABASE_URL / VITE_SUPABASE_ANON_KEY are set
    userProfile,        \* useAuth().userProfile
    schedules, feedback, complaints, loading,
    searchTerm, filterType, activeTab,
    feedbackMessage, feedbackLoading, feedbackSuccess,
    showComplaintForm, complaintForm, complaintLoading, complaintSuccess,
    complaintError,
    isEditingProfile, profileForm,
    profileEffect,      \* the effect on [userProfile] is due after the render
    filteredSchedules,  \* the value computed by the last render
    stale,              \* state was updated and the re-render is due
    mounted,            \* the mount effect has run
    inv,                \* async invocations: slot -> invocation record
    timers,             \* pending setTimeout callbacks of each kind, counted
    userTab,            \* the tab the student has come to work in
    page,               \* the page the browser shows: "login" or "dashboard"
    revision,           \* which revision of the supabase module is built
    console,            \* what the last step wrote to the console
    returned            \* the async function that returned in the last step: its
                        \* result, the response it last awaited, the writes it made

ctxVars     == <<authSession, configured, page, revision, userTab>>
backendVars == <<db_bus_schedules, db_feedback, db_complaints, db_users, ctxVars>>
listVars    == <<schedules, feedback, complaints>>
searchVars  == <<searchTerm, filterType>>
fbVars      == <<feedbackMessage, feedbackLoading, feedbackSuccess>>
cpVars      == <<showComplaintForm, complaintForm, complaintLoading, complaintSuccess,
                 complaintError>>
pfVars      == <<isEditingProfile, profileForm, profileEffect>>
vars == <<backendVars, userProfile, listVars, loading, searchVars, activeTab, fbVars,
          cpVars, pfVars, filteredSchedules, stale, mounted, inv, timers, console,
          returned>>

\* the state of the dashboard component, which the module of the supabase
\* client does not touch
dashVars == <<userProfile, listVars, loading, searchVars, activeTab, fbVars, cpVars,
              pfVars, filteredSchedules, stale, mounted, timers>>

\* ------------------------------------------------------- invocations
\* the invocations that can be in flight together in this run
Slots    == DOMAIN inv
Pending  == [kind |-> "pending"]
NoReq    == [op |-> "none", table |-> "none"]
NoEnv    == [none |-> TRUE]
NoResult == [none |-> TRUE]
NoReturn == [fn |-> "none"]
FreeInv  == [kind |-> "free", pc |-> "free", req |-> NoReq, resp |-> Pending,
             env |-> NoEnv, parent |-> 0, writes |-> 0]

\* supabase.auth.getSession() of the module's connection test, awaited
ConnectionTestCall ==
    [FreeInv EXCEPT !.kind = "connectionTest", !.pc = "getSession",
                    !.req = [op |-> "getSession", table |-> "auth"]]

\* the promise of the module's connection test has a place of its own; the
\* async functions of the module and of the component run in the others
TestSlot  == 0
CallSlots == Slots \ {TestSlot}

Available(i) == inv[i].kind = "free"
Running(i)   == ~Available(i)
FirstFree(f) == CHOOSE i \in CallSlots :
                    f[i].kind = "free" /\ \A j \in CallSlots : f[j].kind = "free" => i <= j

\* calls that invocation i may still make to another async function of the module
MayCall(i) ==
    IF \/ inv[i].kind = "handleComplaintSubmit" /\ inv[i].pc = "insert"
       \/ inv[i].kind = "handleGoogleCallback" /\ inv[i].pc \in {"getSession", "select"}
    THEN 1 ELSE 0

RECURSIVE SumMayCall(_)
SumMayCall(S) ==
    IF S = {} THEN 0
    ELSE LET i == CHOOSE x \in S : TRUE IN MayCall(i) + SumMayCall(S \ {i})

\* slots left once every running invocation has made the calls it may make;
\* a new invocation starts only if the slots it can need are there
SpareSlots == Cardinality({i \in CallSlots : Available(i)}) - SumMayCall(Slots)

\* the step writes nothing to the console and no function returns in it
Silent == console' = {} /\ returned' = NoReturn

\* the invocation awaits a response that has arrived
Resumable(i, kind, pc) ==
    /\ ~stale
    /\ inv[i].kind = kind /\ inv[i].pc = pc
    /\ inv[i].resp.kind # "pending"

\* the request of invocation i is outstanding at the backend
Outstanding(i, op, table) ==
    /\ ~stale
    /\ Running(i)
    /\ inv[i].req.op = op /\ inv[i].req.table = table
    /\ inv[i].resp.kind = "pending"

Respond(i, r) == inv' = [inv EXCEPT ![i].resp = r]

\* invocation i, which no function of the model awaits, rejects with `err`:
\* its slot is free again and no function has returned
Reject(i, err) ==
    /\ inv' = [inv EXCEPT ![i] = FreeInv]
    /\ returned' = [fn |-> "none", rejected |-> inv[i].kind, error |-> err]

\* invocation i returns `result`: the promise resolves, its slot is free again
\* and the caller awaiting it (if any) can resume
Return(i, result) ==
    LET p == inv[i].parent
        g == [inv EXCEPT ![i] = FreeInv]
    IN  /\ inv' = IF p = 0 THEN g
                  ELSE [g EXCEPT ![p].resp = [kind |-> "returned", value |-> result]]
        /\ returned' = [fn |-> inv[i].kind, result |-> result, after |-> inv[i].resp,
                        writes |-> inv[i].writes]

DbErrors == {[message |-> <<"d", "e", "n", "i", "e", "d">>, code |-> "42501"],
             [message |-> <<"d", "o", "w", "n">>, code |-> "503"]}
ErrorResponses  == {[kind |-> "error", error |-> e] : e \in DbErrors}
\* one error stands for all where the code does not look at it
AnError         == [kind |-> "error",
                    error |-> [message |-> <<"d", "o", "w", "n">>, code |-> "503"]]
ThrownResponses == {[kind |-> "throw", error |-> [message |-> <<"d", "o", "w", "n">>]]}

\* ---------------------------------------------------------- fetchData
Reverse(q) == [i \in 1..Len(q) |-> q[Len(q) + 1 - i]]

\* schedulesData.map(schedule => ({...})): the row under the component's names
ConvertSchedule(row) ==
    [id |-> row.id, time |-> row.time, startingPoint |-> row.starting_point,
     route |-> row.route, endPoint |-> row.end_point, direction |-> row.direction,
     gender |-> row.gender, busType |-> row.bus_type, remarks |-> row.remarks,
     description |-> row.description, scheduleType |-> row.schedule_type]

ConvertSchedules(data) == [k \in 1..Len(data) |-> ConvertSchedule(data[k])]

\* fetchData() is called with `profile` the userProfile of its closure: it sets
\* loading and issues the bus_schedules query
FetchDataCall(profile, parent) ==
    [FreeInv EXCEPT !.kind = "fetchData", !.pc = "schedules",
                    !.req = [op |-> "select", table |-> "bus_schedules",
                             gender |-> Interpolated(profile.gender)],
                    !.env = [userProfile |-> profile],
                    !.parent = parent]

\* useEffect(() => { fetchData(); }, [])
MountEffect ==
    /\ ~stale /\ ~mounted /\ page = "dashboard"
    /\ mounted' = TRUE
    /\ inv' = [inv EXCEPT ![FirstFree(inv)] = FetchDataCall(userProfile, 0)]
    /\ loading' = TRUE
    /\ stale' = TRUE
    /\ Silent
    /\ UNCHANGED <<backendVars, userProfile, listVars, searchVars, activeTab, fbVars,
                   cpVars, pfVars, filteredSchedules, timers>>

\* .from('bus_schedules').select('*').or('gender.is.null,gender.eq.G').order('time')
SelectSchedules(g) ==
    OrderedByTime({r \in db_bus_schedules : r.gender = Null \/ r.gender = g})

\* .from(table).select('*').eq('user_id', uid).order('created_at', desc)
SelectOwn(table, uid) == Reverse(SelectSeq(table, LAMBDA r : r.user_id = uid))

ServeSelectSchedules(i) ==
    /\ Outstanding(i, "select", "bus_schedules")
    /\ \E r \in {[kind |-> "ok", data |-> q] : q \in SelectSchedules(inv[i].req.gender)}
                \cup {AnError} \cup ThrownResponses :
           Respond(i, r)
    /\ Silent
    /\ UNCHANGED <<backendVars, userProfile, listVars, loading, searchVars, activeTab,
                   fbVars, cpVars, pfVars, filteredSchedules, stale, mounted, timers>>

ServeSelectFeedback(i) ==
    /\ Outstanding(i, "select", "feedback")
    /\ \E r \in {[kind |-> "ok", data |-> SelectOwn(db_feedback, inv[i].req.user_id)]}
                \cup {AnError} \cup ThrownResponses :
           Respond(i, r)
    /\ Silent
    /\ UNCHANGED <<backendVars, userProfile, listVars, loading, searchVars, activeTab,
                   fbVars, cpVars, pfVars, filteredSchedules, stale, mounted, timers>>

ServeSelectComplaints(i) ==
    /\ Outstanding(i, "select", "complaints")
    /\ \E r \in {[kind |-> "ok", data |-> SelectOwn(db_complaints, inv[i].req.user_id)]}
                \cup {AnError} \cup ThrownResponses :
           Respond(i, r)
    /\ Silent
    /\ UNCHANGED <<backendVars, userProfile, listVars, loading, searchVars, activeTab,
                   fbVars, cpVars, pfVars, filteredSchedules, stale, mounted, timers>>

\* catch (error) { console.error('Error fetching data:') } finally { setLoading(false) }
FetchDataThrew(i) ==
    /\ Return(i, NoResult)
    /\ loading' = FALSE
    /\ console' = {"Error fetching data:"}
    /\ UNCHANGED listVars

NextQuery(i, table) ==
    inv' = [inv EXCEPT ![i].pc = table,
                       ![i].req = [op |-> "select", table |-> table,
                                   user_id |-> inv[i].env.userProfile.id],
                       ![i].resp = Pending]

\* after `await supabase.from('bus_schedules')...`
FetchDataSchedules(i) ==
    /\ Resumable(i, "fetchData", "schedules")
    /\ LET r == inv[i].resp
       IN  IF r.kind = "throw" THEN FetchDataThrew(i)
           ELSE /\ IF r.kind = "error"
                   THEN /\ console' = {"Error fetching schedules:"}
                        /\ schedules' = schedules
                   ELSE /\ console' = {}
                        /\ schedules' = ConvertSchedules(r.data)
                /\ NextQuery(i, "feedback")
                /\ returned' = NoReturn
                /\ UNCHANGED <<feedback, complaints, loading>>
    /\ stale' = TRUE
    /\ UNCHANGED <<backendVars, userProfile, searchVars, activeTab, fbVars, cpVars,
                   pfVars, filteredSchedules, mounted, timers>>

\* mutant: setFeedback(feedbackData || []) runs on a returned error too
FetchDataFeedback_ClearsOnError(i) ==
    /\ Resumable(i, "fetchData", "feedback")
    /\ LET r == inv[i].resp
       IN  IF r.kind = "throw" THEN FetchDataThrew(i)
           ELSE /\ IF r.kind = "error"
                   THEN /\ console' = {"Error fetching feedback:"}
                        /\ feedback' = <<>>
                   ELSE /\ console' = {}
                        /\ feedback' = r.data
                /\ NextQuery(i, "complaints")
                /\ returned' = NoReturn
                /\ UNCHANGED <<schedules, complaints, loading>>
    /\ stale' = TRUE
    /\ UNCHANGED <<backendVars, userProfile, searchVars, activeTab, fbVars, cpVars,
                   pfVars, filteredSchedules, mounted, timers>>

\* after `await supabase.from('feedback')...`
FetchDataFeedback(i) ==
    /\ Resumable(i, "fetchData", "feedback")
    /\ LET r == inv[i].resp
       IN  IF r.kind = "throw" THEN FetchDataThrew(i)
           ELSE /\ IF r.kind = "error"
                   THEN /\ console' = {"Error fetching feedback:"}
                        /\ feedback' = feedback
                   ELSE /\ console' = {}
                        /\ feedback' = r.data
                /\ NextQuery(i, "complaints")
                /\ returned' = NoReturn
                /\ UNCHANGED <<schedules, complaints, loading>>
    /\ stale' = TRUE
    /\ UNCHANGED <<backendVars, userProfile, searchVars, activeTab, fbVars, cpVars,
                   pfVars, filteredSchedules, mounted, timers>>

\* after `await supabase.from('complaints')...`, to the end of fetchData
FetchDataComplaints(i) ==
    /\ Resumable(i, "fetchData", "complaints")
    /\ LET r == inv[i].resp
       IN  IF r.kind = "throw" THEN FetchDataThrew(i)
           ELSE /\ IF r.kind = "error"
                   THEN /\ console' = {"Error fetching complaints:"}
                        /\ complaints' = complaints
                   ELSE /\ console' = {}
                        /\ complaints' = r.data
                /\ Return(i, NoResult)
                /\ loading' = FALSE
                /\ UNCHANGED <<schedules, feedback>>
    /\ stale' = TRUE
    /\ UNCHANGED <<backendVars, userProfile, searchVars, activeTab, fbVars, cpVars,
                   pfVars, filteredSchedules, mounted, timers>>

\* ------------------------------------------------- render and search box
\* the component function runs again: const filteredSchedules = schedules.filter(...)
Render ==
    /\ stale
    /\ stale' = FALSE
    /\ filteredSchedules' = FilterSchedules(schedules, searchTerm, filterType)
    /\ Silent
    /\ UNCHANGED <<backendVars, userProfile, listVars, loading, searchVars, activeTab,
                   fbVars, cpVars, pfVars, mounted, inv, timers>>

\* no async function has returned to a caller that has yet to resume: the
\* caller's continuation is a microtask and runs before any event or timer
Settled == \A i \in Slots : inv[i].resp.kind # "returned"

\* the dashboard body is on screen (not the loading spinner) and idle
Shown(tab) == ~stale /\ ~loading /\ Settled /\ ~profileEffect /\ activeTab = tab

\* onChange={(e) => setSearchTerm(e.target.value)}
SetSearchTerm(v) ==
    /\ Shown("schedules")
    /\ searchTerm' = v
    /\ stale' = TRUE
    /\ Silent
    /\ UNCHANGED <<backendVars, userProfile, listVars, loading, filterType, activeTab,
                   fbVars, cpVars, pfVars, filteredSchedules, mounted, inv, timers>>

\* onChange={(e) => setFilterType(e.target.value as any)}
SetFilterType(v) ==
    /\ Shown("schedules")
    /\ filterType' = v
    /\ stale' = TRUE
    /\ Silent
    /\ UNCHANGED <<backendVars, userProfile, listVars, loading, searchTerm, activeTab,
                   fbVars, cpVars, pfVars, filteredSchedules, mounted, inv, timers>>

\* ------------------------------------------------------ user-facing text
\* a message is a sequence of segments: literal text of the source, and the
\* values a template literal interpolates
Lit(text) == [lit |-> text]
Val(v)    == [val |-> v]
Empty     == <<>>                 \* the empty string ''

\* ----------------------------------------------------------- timers
NoTimers == [feedback |-> 0, complaint |-> 0, connection |-> 0]

\* timers[k] counts the pending timers of kind k; MaxTimers + 1 stands for
\* more than MaxTimers. All are set for 5000 ms, so they come due in the order
\* they were set: the one that fires is the oldest
SetTimeout(k) == [timers EXCEPT ![k] = IF @ <= MaxTimers THEN @ + 1 ELSE @]

AfterTimeout(k) ==
    {[timers EXCEPT ![k] = @ - 1]}
        \cup (IF timers[k] = MaxTimers + 1 THEN {timers} ELSE {})

\* ------------------------------------------------------------- tabs
\* onClick={() => setActiveTab(tab)}
SetActiveTab(tab) ==
    /\ ~stale /\ ~loading /\ Settled /\ mounted /\ ~profileEffect
    /\ activeTab # tab
    /\ activeTab' = tab
    /\ stale' = TRUE
    /\ Silent
    /\ UNCHANGED <<db_bus_schedules, db_feedback, db_complaints, db_users, ctxVars,
                   userProfile, listVars, loading, searchVars, fbVars,
                   cpVars, pfVars, filteredSchedules, mounted, inv, timers>>

\* ---------------------------------------------------------- feedback
\* onChange={(e) => setFeedbackMessage(e.target.value)}
SetFeedbackMessage(v) ==
    /\ Shown("feedback")
    /\ feedbackMessage' = v
    /\ stale' = TRUE
    /\ Silent
    /\ UNCHANGED <<backendVars, userProfile, listVars, loading, searchVars, activeTab,
                   feedbackLoading, feedbackSuccess, cpVars, pfVars, filteredSchedules,
                   mounted, inv, timers>>

FeedbackThanks == <<Lit("Thank you for your feedback! We appreciate your input.")>>

\* the submit button of the feedback form: disabled={feedbackLoading || !feedbackMessage.trim()}
FeedbackButtonEnabled == ~feedbackLoading /\ trim(feedbackMessage) # <<>>

\* mutant: if (!feedbackMessage) return
FeedbackSubmitted_NoTrim ==
    /\ Shown("feedback")
    /\ SpareSlots >= 1
    /\ Len(SelectOwn(db_feedback, userProfile.id)) < MaxNotes
    /\ IF feedbackMessage = <<>>
       THEN UNCHANGED <<inv, feedbackLoading, stale>>
       ELSE /\ feedbackLoading' = TRUE
            /\ stale' = TRUE
            /\ inv' = [inv EXCEPT ![FirstFree(inv)] =
                         [FreeInv EXCEPT !.kind = "handleFeedbackSubmit", !.pc = "insert",
                                         !.req = [op |-> "insert", table |-> "feedback",
                                                  row |-> [user_id |-> userProfile.id,
                                                           message |-> feedbackMessage]],
                                         !.env = [userProfile |-> userProfile],
                                         !.writes = 1]]
    /\ Silent
    /\ UNCHANGED <<backendVars, userProfile, listVars, loading, searchVars, activeTab,
                   feedbackMessage, feedbackSuccess, cpVars, pfVars, filteredSchedules,
                   mounted, timers>>

\* handleFeedbackSubmit, from the submit event to the await of the insert
FeedbackSubmitted ==
    /\ Shown("feedback")
    /\ SpareSlots >= 1
    /\ Len(SelectOwn(db_feedback, userProfile.id)) < MaxNotes
    /\ IF trim(feedbackMessage) = <<>>
       THEN UNCHANGED <<inv, feedbackLoading, stale>>
       ELSE /\ feedbackLoading' = TRUE
            /\ stale' = TRUE
            /\ inv' = [inv EXCEPT ![FirstFree(inv)] =
                         [FreeInv EXCEPT !.kind = "handleFeedbackSubmit", !.pc = "insert",
                                         !.req = [op |-> "insert", table |-> "feedback",
                                                  row |-> [user_id |-> userProfile.id,
                                                           message |-> feedbackMessage]],
                                         !.env = [userProfile |-> userProfile],
                                         !.writes = 1]]
    /\ Silent
    /\ UNCHANGED <<backendVars, userProfile, listVars, loading, searchVars, activeTab,
                   feedbackMessage, feedbackSuccess, cpVars, pfVars, filteredSchedules,
                   mounted, timers>>

\* <form onSubmit={handleFeedbackSubmit}>: a click on the enabled submit button
HandleFeedbackSubmit == FeedbackButtonEnabled /\ FeedbackSubmitted

\* the submit event dispatched on the form itself (form.requestSubmit()), which
\* does not ask whether the button is enabled
RequestFeedbackSubmit == FeedbackSubmitted

\* .from('feedback').insert([{user_id, message}])
ServeInsertFeedback(i) ==
    /\ Outstanding(i, "insert", "feedback")
    /\ \/ /\ db_feedback' = Append(db_feedback,
                                   [id |-> Len(db_feedback) + 1,
                                    user_id |-> inv[i].req.row.user_id,
                                    message |-> inv[i].req.row.message])
          /\ Respond(i, [kind |-> "ok", data |-> Null])
       \/ /\ \E r \in {AnError} \cup ThrownResponses : Respond(i, r)
          /\ UNCHANGED db_feedback
    /\ Silent
    /\ UNCHANGED <<db_bus_schedules, db_complaints, db_users, ctxVars,
                   userProfile, listVars, loading, searchVars, activeTab, fbVars, cpVars,
                   pfVars, filteredSchedules, stale, mounted, timers>>

\* handleFeedbackSubmit after `await supabase.from('feedback').insert(...)`
HandleFeedbackSubmitInsert(i) ==
    /\ Resumable(i, "handleFeedbackSubmit", "insert")
    /\ IF inv[i].resp.kind = "ok"
       THEN /\ feedbackMessage' = Empty
            /\ feedbackSuccess' = FeedbackThanks
            \* fetchData() is not awaited: it starts, and the handler runs on
            /\ loading' = TRUE
            /\ LET g == [inv EXCEPT ![i] = FreeInv]
               IN  inv' = [g EXCEPT ![FirstFree(g)] =
                                        FetchDataCall(inv[i].env.userProfile, 0)]
            /\ returned' = [fn |-> "handleFeedbackSubmit", result |-> NoResult,
                            after |-> inv[i].resp, writes |-> inv[i].writes]
            /\ timers' = SetTimeout("feedback")
            /\ console' = {}
       ELSE /\ console' = {"Error submitting feedback:"}
            /\ Return(i, NoResult)
            /\ UNCHANGED <<feedbackMessage, feedbackSuccess, loading, timers>>
    /\ feedbackLoading' = FALSE
    /\ stale' = TRUE
    /\ UNCHANGED <<backendVars, userProfile, listVars, searchVars, activeTab, cpVars,
                   pfVars, filteredSchedules, mounted>>

\* setTimeout(() => setFeedbackSuccess(''), 5000) comes due
FeedbackTimerFires ==
    /\ ~stale /\ Settled
    /\ timers.feedback > 0
    /\ timers' \in AfterTimeout("feedback")
    /\ feedbackSuccess' = Empty
    /\ stale' = TRUE
    /\ Silent
    /\ UNCHANGED <<backendVars, userProfile, listVars, loading, searchVars, activeTab,
                   feedbackMessage, feedbackLoading, cpVars, pfVars, filteredSchedules,
                   mounted, inv>>

\* --------------------------------------------------------- complaints
\* the unions of Complaint.category and Complaint.priority, which are also the
\* options of the two selects of the form
Categories == {"delay", "safety", "driver_behavior", "bus_condition", "route_issue",
               "other"}
Priorities == {"low", "medium", "high", "urgent"}

DefaultComplaintForm ==
    [title |-> <<>>, description |-> <<>>, category |-> "other",
     priority |-> "medium", bus_route |-> <<>>, incident_time |-> <<>>]

\* resetComplaintForm(); setShowComplaintForm(true)  (the New Complaint buttons)
OpenComplaintForm ==
    /\ Shown("complaints")
    /\ complaintForm' = DefaultComplaintForm
    /\ complaintError' = Empty
    /\ complaintSuccess' = Empty
    /\ showComplaintForm' = TRUE
    /\ stale' = TRUE
    /\ Silent
    /\ UNCHANGED <<backendVars, userProfile, listVars, loading, searchVars, activeTab,
                   fbVars, complaintLoading, pfVars, filteredSchedules, mounted, inv,
                   timers>>

\* onClick={() => setShowComplaintForm(false)}  (backdrop, X and Cancel)
CloseComplaintForm ==
    /\ Shown("complaints") /\ showComplaintForm
    /\ showComplaintForm' = FALSE
    /\ stale' = TRUE
    /\ Silent
    /\ UNCHANGED <<backendVars, userProfile, listVars, loading, searchVars, activeTab,
                   fbVars, complaintForm, complaintLoading, complaintSuccess,
                   complaintError, pfVars, filteredSchedules, mounted, inv, timers>>

\* onChange={(e) => setComplaintForm({...complaintForm, [field]: e.target.value})}
SetComplaintField(field, v) ==
    /\ Shown("complaints") /\ showComplaintForm
    /\ complaintForm[field] # v
    /\ complaintForm' = [complaintForm EXCEPT ![field] = v]
    /\ stale' = TRUE
    /\ Silent
    /\ UNCHANGED <<backendVars, userProfile, listVars, loading, searchVars, activeTab,
                   fbVars, showComplaintForm, complaintLoading, complaintSuccess,
                   complaintError, pfVars, filteredSchedules, mounted, inv, timers>>

NeedTitle       == <<Lit("Please provide a title for your complaint")>>
NeedDescription == <<Lit("Please provide a detailed description of the issue")>>
NeedMoreDetail  ==
    <<Lit("Please provide a more detailed description (at least 10 characters)")>>
ComplaintThanks ==
    <<Lit("Your complaint has been submitted successfully! We will review it and get back to you soon.")>>
ComplaintUnexpected == <<Lit("An unexpected error occurred. Please try again.")>>
ComplaintFailed(message) == <<Lit("Failed to submit complaint: "), Val(message)>>

MinDescription == 10

\* mutant: x || null, the field as typed
TrimOrNull_AsTyped(x) == IF x = <<>> THEN Null ELSE x

\* x.trim() || null
TrimOrNull(x) == IF trim(x) = <<>> THEN Null ELSE trim(x)

\* the object passed to .insert([...])
ComplaintPayload(profile, form) ==
    [user_id |-> profile.id,
     title |-> trim(form.title),
     description |-> trim(form.description),
     category |-> form.category,
     priority |-> form.priority,
     bus_route |-> TrimOrNull(form.bus_route),
     incident_time |-> TrimOrNull(form.incident_time)]

\* mutant: the description is looked at before the title
ComplaintValidation_DescriptionFirst(form) ==
    IF trim(form.description) = <<>> THEN NeedDescription
    ELSE IF trim(form.title) = <<>> THEN NeedTitle
    ELSE IF Len(trim(form.description)) < MinDescription THEN NeedMoreDetail
    ELSE Empty

\* the first validation that fails, or <<>> when the form passes
ComplaintValidation(form) ==
    IF trim(form.title) = <<>> THEN NeedTitle
    ELSE IF trim(form.description) = <<>> THEN NeedDescription
    ELSE IF Len(trim(form.description)) < MinDescription THEN NeedMoreDetail
    ELSE Empty

\* the submit button of the complaint form: disabled={complaintLoading ||
\* !complaintForm.title.trim() || !complaintForm.description.trim()}
ComplaintButtonEnabled ==
    /\ ~complaintLoading
    /\ trim(complaintForm.title) # <<>>
    /\ trim(complaintForm.description) # <<>>

\* handleComplaintSubmit, from the submit event to the await of the insert
ComplaintSubmitted ==
    /\ Shown("complaints") /\ showComplaintForm
    /\ SpareSlots >= 2
    /\ Len(SelectOwn(db_complaints, userProfile.id)) < MaxPosts
    /\ complaintSuccess' = Empty
    /\ IF ComplaintValidation(complaintForm) # Empty
       THEN /\ complaintError' = ComplaintValidation(complaintForm)
            /\ console' = {}
            /\ UNCHANGED <<inv, complaintLoading>>
       ELSE /\ complaintError' = Empty
            /\ complaintLoading' = TRUE
            /\ console' = {"Submitting complaint:"}
            /\ inv' = [inv EXCEPT ![FirstFree(inv)] =
                         [FreeInv EXCEPT !.kind = "handleComplaintSubmit", !.pc = "insert",
                                         !.req = [op |-> "insert", table |-> "complaints",
                                                  row |-> ComplaintPayload(userProfile,
                                                                           complaintForm)],
                                         !.env = [userProfile |-> userProfile],
                                         !.writes = 1]]
    /\ returned' = NoReturn
    /\ stale' = TRUE
    /\ UNCHANGED <<backendVars, userProfile, listVars, loading, searchVars, activeTab,
                   fbVars, showComplaintForm, complaintForm, pfVars, filteredSchedules,
                   mounted, timers>>

\* <form onSubmit={handleComplaintSubmit}>: a click on the enabled submit button
HandleComplaintSubmit == ComplaintButtonEnabled /\ ComplaintSubmitted

\* the submit event dispatched on the form itself (form.requestSubmit()), which
\* does not ask whether the button is enabled
RequestComplaintSubmit == ComplaintSubmitted

\* .from('complaints').insert([{...}]).select(); status defaults to pending
ServeInsertComplaint(i) ==
    /\ Outstanding(i, "insert", "complaints")
    /\ \/ LET row == [id |-> Len(db_complaints) + 1, status |-> "pending"]
                     @@ inv[i].req.row
          IN  /\ db_complaints' = Append(db_complaints, row)
              /\ Respond(i, [kind |-> "ok", data |-> <<row>>])
       \/ /\ \E r \in ErrorResponses \cup ThrownResponses : Respond(i, r)
          /\ UNCHANGED db_complaints
    /\ Silent
    /\ UNCHANGED <<db_bus_schedules, db_feedback, db_users, ctxVars,
                   userProfile, listVars, loading, searchVars, activeTab, fbVars, cpVars,
                   pfVars, filteredSchedules, stale, mounted, timers>>

\* mutant: the catch block shows the text of whatever was thrown
ComplaintErrorFor_Thrown(r) == ComplaintFailed(r.error.message)

\* mutant: the catch block of a thrown exception sets no error
ComplaintErrorFor_NoBanner(r) ==
    IF r.kind = "error" THEN ComplaintFailed(r.error.message) ELSE Empty

\* setComplaintError after a failed insert: the template with error.message
\* when the insert returned an error, the fixed text of the catch block when
\* it threw
ComplaintErrorFor(r) ==
    IF r.kind = "error" THEN ComplaintFailed(r.error.message) ELSE ComplaintUnexpected

\* mutant: a saved complaint leaves the modal open with what was typed
HandleComplaintSubmitInsert_KeepsForm(i) ==
    /\ Resumable(i, "handleComplaintSubmit", "insert")
    /\ LET r == inv[i].resp
       IN  IF r.kind = "ok"
           THEN /\ console' = {"Complaint submitted successfully:"}
                /\ complaintSuccess' = ComplaintThanks
                /\ loading' = TRUE
                /\ LET g == [inv EXCEPT ![i].pc = "fetchData", ![i].req = NoReq,
                                        ![i].resp = Pending]
                   IN  inv' = [g EXCEPT ![FirstFree(g)] =
                                            FetchDataCall(inv[i].env.userProfile, i)]
                /\ returned' = NoReturn
                /\ UNCHANGED <<complaintError, complaintLoading, complaintForm,
                               showComplaintForm>>
           ELSE /\ console' = {"Error submitting complaint:"}
                /\ complaintError' = ComplaintErrorFor(r)
                /\ complaintLoading' = FALSE
                /\ Return(i, NoResult)
                /\ UNCHANGED <<complaintForm, complaintSuccess, showComplaintForm, loading>>
    /\ stale' = TRUE
    /\ UNCHANGED <<backendVars, userProfile, listVars, searchVars, activeTab, fbVars,
                   pfVars, filteredSchedules, mounted, timers>>

\* handleComplaintSubmit after `await supabase.from('complaints').insert(...).select()`
HandleComplaintSubmitInsert(i) ==
    /\ Resumable(i, "handleComplaintSubmit", "insert")
    /\ LET r == inv[i].resp
       IN  IF r.kind = "ok"
           THEN /\ console' = {"Complaint submitted successfully:"}
                /\ complaintForm' = DefaultComplaintForm
                /\ complaintSuccess' = ComplaintThanks
                /\ showComplaintForm' = FALSE
                \* await fetchData()
                /\ loading' = TRUE
                /\ LET g == [inv EXCEPT ![i].pc = "fetchData", ![i].req = NoReq,
                                        ![i].resp = Pending]
                   IN  inv' = [g EXCEPT ![FirstFree(g)] =
                                            FetchDataCall(inv[i].env.userProfile, i)]
                /\ returned' = NoReturn
                /\ UNCHANGED <<complaintError, complaintLoading>>
           ELSE /\ console' = {"Error submitting complaint:"}
                /\ complaintError' = ComplaintErrorFor(r)
                /\ complaintLoading' = FALSE
                /\ Return(i, NoResult)
                /\ UNCHANGED <<complaintForm, complaintSuccess, showComplaintForm, loading>>
    /\ stale' = TRUE
    /\ UNCHANGED <<backendVars, userProfile, listVars, searchVars, activeTab, fbVars,
                   pfVars, filteredSchedules, mounted, timers>>

\* mutant: the flag is cleared on the failure paths only
HandleComplaintSubmitFetched_StaysLoading(i) ==
    /\ Resumable(i, "handleComplaintSubmit", "fetchData")
    /\ timers' = SetTimeout("complaint")
    /\ Return(i, NoResult)
    /\ console' = {}
    /\ stale' = TRUE
    /\ UNCHANGED <<backendVars, userProfile, listVars, loading, searchVars, activeTab,
                   fbVars, showComplaintForm, complaintForm, complaintSuccess,
                   complaintError, complaintLoading, pfVars, filteredSchedules, mounted>>

\* handleComplaintSubmit after `await fetchData()`, to its end
HandleComplaintSubmitFetched(i) ==
    /\ Resumable(i, "handleComplaintSubmit", "fetchData")
    /\ timers' = SetTimeout("complaint")
    /\ complaintLoading' = FALSE
    /\ Return(i, NoResult)
    /\ console' = {}
    /\ stale' = TRUE
    /\ UNCHANGED <<backendVars, userProfile, listVars, loading, searchVars, activeTab,
                   fbVars, showComplaintForm, complaintForm, complaintSuccess,
                   complaintError, pfVars, filteredSchedules, mounted>>

\* setTimeout(() => setComplaintSuccess(''), 5000) comes due
ComplaintTimerFires ==
    /\ ~stale /\ Settled
    /\ timers.complaint > 0
    /\ timers' \in AfterTimeout("complaint")
    /\ complaintSuccess' = Empty
    /\ stale' = TRUE
    /\ Silent
    /\ UNCHANGED <<backendVars, userProfile, listVars, loading, searchVars, activeTab,
                   fbVars, showComplaintForm, complaintForm, complaintLoading,
                   complaintError, pfVars, filteredSchedules, mounted, inv>>

\* ------------------------------------------------------------ profile
\* onClick={() => setIsEditingProfile(true)} and the Cancel button
SetIsEditingProfile(v) ==
    /\ Shown("profile")
    /\ isEditingProfile # v
    /\ isEditingProfile' = v
    /\ stale' = TRUE
    /\ Silent
    /\ UNCHANGED <<backendVars, userProfile, listVars, loading, searchVars, activeTab,
                   fbVars, cpVars, profileForm, profileEffect, filteredSchedules,
                   mounted, inv, timers>>

\* onChange={(e) => setProfileForm({...profileForm, [field]: e.target.value})}
SetProfileField(field, v) ==
    /\ Shown("profile") /\ isEditingProfile
    /\ profileForm[field] # v
    /\ profileForm' = [profileForm EXCEPT ![field] = v]
    /\ stale' = TRUE
    /\ Silent
    /\ UNCHANGED <<backendVars, userProfile, listVars, loading, searchVars, activeTab,
                   fbVars, cpVars, isEditingProfile, profileEffect, filteredSchedules,
                   mounted, inv, timers>>

\* handleProfileUpdate, from the submit event to the await of updateProfile
HandleProfileUpdate ==
    /\ Shown("profile") /\ isEditingProfile
    /\ SpareSlots >= 1
    /\ inv' = [inv EXCEPT ![FirstFree(inv)] =
                 [FreeInv EXCEPT !.kind = "handleProfileUpdate", !.pc = "updateProfile",
                                 !.req = [op |-> "updateProfile", table |-> "users",
                                          row |-> [name |-> profileForm.name,
                                                   mobile |-> profileForm.mobile,
                                                   university_id |->
                                                       profileForm.university_id]],
                                 !.writes = 1]]
    /\ Silent
    /\ UNCHANGED <<backendVars, userProfile, listVars, loading, searchVars, activeTab,
                   fbVars, cpVars, pfVars, filteredSchedules, stale, mounted, timers>>

\* updateProfile of the auth context answers {error}; what it does to the
\* context's userProfile is outside this component
ServeUpdateProfile(i) ==
    /\ Outstanding(i, "updateProfile", "users")
    /\ \E r \in {[kind |-> "ok", data |-> Null]} \cup {AnError} \cup ThrownResponses :
           Respond(i, r)
    /\ Silent
    /\ UNCHANGED <<backendVars, userProfile, listVars, loading, searchVars, activeTab,
                   fbVars, cpVars, pfVars, filteredSchedules, stale, mounted, timers>>

\* handleProfileUpdate after `await updateProfile(...)`
HandleProfileUpdateDone(i) ==
    /\ Resumable(i, "handleProfileUpdate", "updateProfile")
    /\ IF inv[i].resp.kind = "ok"
       THEN /\ isEditingProfile' = FALSE
            /\ stale' = TRUE
            /\ console' = {}
       ELSE /\ console' = {"Error updating profile:"}
            /\ UNCHANGED <<isEditingProfile, stale>>
    /\ Return(i, NoResult)
    /\ UNCHANGED <<backendVars, userProfile, listVars, loading, searchVars, activeTab,
                   fbVars, cpVars, profileForm, profileEffect, filteredSchedules,
                   mounted, timers>>

\* the auth context delivers the profile: the component is to render again
\* with the new userProfile, and the effect on [userProfile] is to run after
\* that render. The effects of the first render run before any other render,
\* so the mount effect has run
ProfileLoaded ==
    /\ ~stale /\ mounted
    /\ userProfile = NoProfile
    /\ userProfile' = Student
    /\ profileEffect' = TRUE
    /\ stale' = TRUE
    /\ Silent
    /\ UNCHANGED <<backendVars, listVars, loading, searchVars, activeTab, fbVars, cpVars,
                   isEditingProfile, profileForm, filteredSchedules, mounted, inv,
                   timers>>

\* useEffect(() => { if (userProfile) setProfileForm({...}) }, [userProfile])
\* after a render in which userProfile has changed. (After the first render it
\* stores what useState already has.)
ProfileEffect ==
    /\ ~stale /\ profileEffect
    /\ profileEffect' = FALSE
    /\ IF userProfile # NoProfile
       THEN /\ profileForm' = [name |-> userProfile.name, mobile |-> userProfile.mobile,
                               university_id |-> userProfile.university_id]
            /\ stale' = TRUE
       ELSE UNCHANGED <<profileForm, stale>>
    /\ Silent
    /\ UNCHANGED <<backendVars, userProfile, listVars, loading, searchVars, activeTab,
                   fbVars, cpVars, isEditingProfile, filteredSchedules, mounted, inv,
                   timers>>

\* ------------------------------------------------------------- logout
\* handleLogout (the Logout button of the header), up to the await of signOut
HandleLogout ==
    /\ ~stale /\ ~loading /\ Settled /\ mounted /\ ~profileEffect
    /\ SpareSlots >= 1
    /\ inv' = [inv EXCEPT ![FirstFree(inv)] =
                 [FreeInv EXCEPT !.kind = "handleLogout", !.pc = "signOut",
                                 !.req = [op |-> "signOut", table |-> "auth"]]]
    /\ Silent
    /\ UNCHANGED <<backendVars, userProfile, listVars, loading, searchVars, activeTab,
                   fbVars, cpVars, pfVars, filteredSchedules, stale, mounted, timers>>

\* signOut of the auth context: it ends the session and clears userProfile,
\* or fails and leaves them
ServeSignOut(i) ==
    /\ Outstanding(i, "signOut", "auth")
    /\ \/ /\ Respond(i, [kind |-> "ok", data |-> Null])
          /\ authSession' = NoSession
          /\ userProfile' = NoProfile
          /\ IF userProfile # NoProfile
             THEN profileEffect' = TRUE /\ stale' = TRUE
             ELSE UNCHANGED <<profileEffect, stale>>
       \/ /\ \E r \in {AnError} \cup ThrownResponses : Respond(i, r)
          /\ UNCHANGED <<authSession, userProfile, profileEffect, stale>>
    /\ Silent
    /\ UNCHANGED <<db_bus_schedules, db_feedback, db_complaints, db_users, configured,
                   page, revision, userTab, listVars, loading, searchVars, activeTab,
                   fbVars, cpVars, isEditingProfile, profileForm, filteredSchedules,
                   mounted, timers>>

\* handleLogout after `await signOut()`: nothing is left to do. It has no
\* try / catch: when signOut rejects, handleLogout rejects with that error
HandleLogoutDone(i) ==
    /\ Resumable(i, "handleLogout", "signOut")
    /\ IF inv[i].resp.kind = "throw"
       THEN Reject(i, inv[i].resp.error)
       ELSE Return(i, NoResult)
    /\ console' = {}
    /\ UNCHANGED <<backendVars, userProfile, listVars, loading, searchVars, activeTab,
                   fbVars, cpVars, pfVars, filteredSchedules, stale, mounted, timers>>

\* ------------------------------------------------------- module load
\* what the load of the module writes to the console
LoadMessages(isConfigured) ==
    {"Supabase Configuration Check:", "URL:", "Anon Key:"}
        \cup (IF isConfigured THEN {}
              ELSE {"Supabase credentials missing - running in offline mode"})

\* setTimeout(() => { supabase.auth.getSession().then(...).catch(...) }, 100),
\* set at the load when the credentials are there, comes due
ConnectionTimerFires ==
    /\ ~stale /\ Settled
    /\ timers.connection > 0
    /\ timers' = [timers EXCEPT !.connection = @ - 1]
    /\ inv' = [inv EXCEPT ![TestSlot] = ConnectionTestCall]
    /\ Silent
    /\ UNCHANGED <<backendVars, userProfile, listVars, loading, searchVars, activeTab,
                   fbVars, cpVars, pfVars, filteredSchedules, stale, mounted>>

\* the .then / .catch of the connection test
ConnectionTested(i) ==
    /\ Resumable(i, "connectionTest", "getSession")
    /\ console' = {CASE inv[i].resp.kind = "throw" -> "Supabase connection failed:"
                     [] inv[i].resp.kind = "error" -> "Supabase connection error:"
                     [] OTHER                      -> "Supabase connected successfully"}
    /\ inv' = [inv EXCEPT ![i] = FreeInv]
    /\ returned' = NoReturn
    /\ UNCHANGED <<backendVars, dashVars>>

\* supabase.auth.getSession() answers {data: {session}, error} or throws
ServeGetSession(i) ==
    /\ Outstanding(i, "getSession", "auth")
    /\ \E r \in {[kind |-> "ok", data |-> [session |-> authSession]]}
                \cup ErrorResponses \cup ThrownResponses :
           Respond(i, r)
    /\ Silent
    /\ UNCHANGED <<backendVars, dashVars>>

\* the steps of the connection test
ConnectionTest ==
    \/ ConnectionTimerFires
    \/ ServeGetSession(TestSlot)
    \/ ConnectionTested(TestSlot)

\* --------------------------------------------------------------- Init
\* userProfile?.f || ''
OrEmpty(x) == IF x = Undefined THEN <<>> ELSE x

ForeignFeedback  == [id |-> 0, user_id |-> "u2", message |-> <<"o", "k">>]

\* the component after its first render: the useState initial values
InitRendered ==
    /\ schedules = <<>> /\ feedback = <<>> /\ complaints = <<>>
    /\ loading = TRUE
    /\ searchTerm = <<>> /\ filterType = "all" /\ activeTab = "schedules"
    /\ feedbackMessage = <<>> /\ feedbackLoading = FALSE /\ feedbackSuccess = <<>>
    /\ showComplaintForm = FALSE
    /\ complaintForm = DefaultComplaintForm
    /\ complaintLoading = FALSE /\ complaintSuccess = <<>> /\ complaintError = <<>>
    /\ isEditingProfile = FALSE
    /\ profileForm = [name |-> OrEmpty(userProfile.name),
                      mobile |-> OrEmpty(userProfile.mobile),
                      university_id |-> OrEmpty(userProfile.university_id)]
    /\ filteredSchedules = Ok(<<>>)
    /\ profileEffect = FALSE
    /\ stale = FALSE /\ mounted = FALSE
    /\ returned = NoReturn

\* no invocation in flight, with n places for the calls
NoCalls(n) == [i \in 0..n |-> FreeInv]

\* ... mounted while the connection test that the load of the supabase module
\* has scheduled is yet to start, is in flight, or is over (nothing orders
\* the first render and the test); no other call is in flight
InitComponent ==
    /\ InitRendered
    /\ \/ /\ configured
          /\ timers = [NoTimers EXCEPT !.connection = 1]
          /\ inv = NoCalls(MaxInv)
       \/ /\ configured
          /\ timers = NoTimers
          /\ inv = [NoCalls(MaxInv) EXCEPT ![TestSlot] = ConnectionTestCall]
       \/ /\ timers = NoTimers
          /\ inv = NoCalls(MaxInv)
    /\ console = {}

\* the connection test was over when the dashboard was mounted
TestOver == timers.connection = 0 /\ Available(TestSlot)

\* the schedules tab, mounted after the connection test
InitFilter ==
    /\ db_bus_schedules \in {t \in SUBSET ScheduleRows : Cardinality(t) <= MaxRows}
    /\ db_feedback = <<ForeignFeedback>>
    /\ db_complaints = <<>>
    /\ db_users = {}
    /\ authSession = [none |-> TRUE]
    /\ configured = TRUE
    /\ page = "dashboard"
    /\ revision = "supabase.ts"
    /\ userTab = "schedules"
    /\ userProfile = Student
    /\ InitComponent
    /\ TestOver

NextFilter ==
    \/ MountEffect
    \/ Render
    \/ \E i \in Slots : ServeSelectSchedules(i)
    \/ \E i \in Slots : ServeSelectFeedback(i)
    \/ \E i \in Slots : ServeSelectComplaints(i)
    \/ \E i \in Slots : FetchDataSchedules(i)
    \/ \E i \in Slots : FetchDataFeedback(i)
    \/ \E i \in Slots : FetchDataComplaints(i)
    \/ \E v \in SearchTerms : SetSearchTerm(v)
    \/ \E v \in FilterTypes : SetFilterType(v)

SpecFilter == InitFilter /\ [][NextFilter]_vars

\* the dashboard with one schedule row and a valid or short complaint
DashSchedules == {ScheduleRow("route", "Regular", Null)}

FeedbackInputs    == {<<>>, <<" ">>, <<"o", "k">>}
TitleInputs       == {<<"t">>}
LongDescription   == <<" ", "b", "u", "s", " ", "i", "s", " ", "l", "a", "t", "e">>
DescriptionInputs == {<<"b", "a", "d">>, LongDescription}
ProfileNames      == {<<"a">>, <<"z">>}

InitDash ==
    /\ db_bus_schedules = DashSchedules
    /\ db_feedback = <<ForeignFeedback>>
    /\ db_complaints = <<>>
    /\ db_users = {}
    /\ authSession = [none |-> TRUE]
    /\ configured = TRUE
    /\ page = "dashboard"
    /\ revision = "supabase.ts"
    /\ userTab \in {"feedback", "complaints", "profile"}
    /\ userProfile = Student
    /\ InitComponent

NextFetch ==
    \/ MountEffect
    \/ Render
    \/ \E i \in Slots : ServeSelectSchedules(i)
    \/ \E i \in Slots : ServeSelectFeedback(i)
    \/ \E i \in Slots : ServeSelectComplaints(i)
    \/ \E i \in Slots : FetchDataSchedules(i)
    \/ \E i \in Slots : FetchDataFeedback(i)
    \/ \E i \in Slots : FetchDataComplaints(i)

\* what the student and the backend do on the dashboard
NextForms ==
    \/ NextFetch
    \/ \E tab \in {"schedules", userTab} : SetActiveTab(tab)
    \/ \E v \in FeedbackInputs : SetFeedbackMessage(v)
    \/ HandleFeedbackSubmit
    \/ \E i \in Slots : ServeInsertFeedback(i)
    \/ \E i \in Slots : HandleFeedbackSubmitInsert(i)
    \/ FeedbackTimerFires
    \/ OpenComplaintForm
    \/ CloseComplaintForm
    \/ \E v \in TitleInputs : SetComplaintField("title", v)
    \/ \E v \in DescriptionInputs : SetComplaintField("description", v)
    \/ HandleComplaintSubmit
    \/ \E i \in Slots : ServeInsertComplaint(i)
    \/ \E i \in Slots : HandleComplaintSubmitInsert(i)
    \/ \E i \in Slots : HandleComplaintSubmitFetched(i)
    \/ ComplaintTimerFires
    \/ \E v \in BOOLEAN : SetIsEditingProfile(v)
    \/ \E v \in ProfileNames : SetProfileField("name", v)
    \/ HandleProfileUpdate
    \/ \E i \in Slots : ServeUpdateProfile(i)
    \/ \E i \in Slots : HandleProfileUpdateDone(i)

\* ... while the connection test of the module runs
NextDash == ConnectionTest \/ NextForms

SpecDash == InitDash /\ [][NextDash]_vars

\* the student goes from tab to tab in one session, with one text for each
\* form, mounted after the connection test; every query of fetchData is
\* answered with data
Tabs == {"schedules", "feedback", "complaints", "profile"}

NextTabs ==
    \/ MountEffect
    \/ Render
    \/ \E i \in Slots : ServeSelectSchedules(i) /\ inv'[i].resp.kind = "ok"
    \/ \E i \in Slots : ServeSelectFeedback(i) /\ inv'[i].resp.kind = "ok"
    \/ \E i \in Slots : ServeSelectComplaints(i) /\ inv'[i].resp.kind = "ok"
    \/ \E i \in Slots : FetchDataSchedules(i)
    \/ \E i \in Slots : FetchDataFeedback(i)
    \/ \E i \in Slots : FetchDataComplaints(i)
    \/ \E tab \in Tabs : SetActiveTab(tab)
    \/ \E v \in {<<"o", "k">>} : SetFeedbackMessage(v)
    \/ HandleFeedbackSubmit
    \/ \E i \in Slots : ServeInsertFeedback(i)
    \/ \E i \in Slots : HandleFeedbackSubmitInsert(i)
    \/ FeedbackTimerFires
    \/ OpenComplaintForm
    \/ \E v \in TitleInputs : SetComplaintField("title", v)
    \/ \E v \in {LongDescription} : SetComplaintField("description", v)
    \/ HandleComplaintSubmit
    \/ \E i \in Slots : ServeInsertComplaint(i)
    \/ \E i \in Slots : HandleComplaintSubmitInsert(i)
    \/ \E i \in Slots : HandleComplaintSubmitFetched(i)
    \/ ComplaintTimerFires
    \/ \E v \in BOOLEAN : SetIsEditingProfile(v)
    \/ HandleProfileUpdate
    \/ \E i \in Slots : ServeUpdateProfile(i)
    \/ \E i \in Slots : HandleProfileUpdateDone(i)

InitTabs == InitDash /\ userTab = "feedback" /\ TestOver

SpecTabs == InitTabs /\ [][NextTabs]_vars

\* what the backend and the event loop do for invocation i: the request is
\* answered, and the function awaiting an answer that has arrived resumes
SystemStep(i) ==
    \/ ServeSelectSchedules(i) \/ ServeSelectFeedback(i) \/ ServeSelectComplaints(i)
    \/ FetchDataSchedules(i) \/ FetchDataFeedback(i) \/ FetchDataComplaints(i)
    \/ ServeInsertFeedback(i) \/ HandleFeedbackSubmitInsert(i)
    \/ ServeInsertComplaint(i) \/ HandleComplaintSubmitInsert(i)
    \/ HandleComplaintSubmitFetched(i)
    \/ ServeUpdateProfile(i) \/ HandleProfileUpdateDone(i)

\* every request is answered in the end (with data, an error or a rejection),
\* React renders a pending update, and the event loop runs a continuation that
\* is due however many events the student produces meanwhile
InitFair == InitDash /\ TestOver

FairDash ==
    /\ InitFair /\ [][NextForms]_vars
    /\ WF_vars(MountEffect)
    /\ WF_vars(Render)
    /\ \A i \in 1..MaxInv : SF_vars(SystemStep(i))

\* the dashboard mounted before or after the auth context has the profile
InitProfile ==
    /\ db_bus_schedules \in {t \in SUBSET ScheduleRows : Cardinality(t) <= MaxRows}
    /\ db_feedback = <<ForeignFeedback>>
    /\ db_complaints = <<>>
    /\ db_users = {}
    /\ authSession = [none |-> TRUE]
    /\ configured = TRUE
    /\ page = "dashboard"
    /\ revision = "supabase.ts"
    /\ userTab = "schedules"
    /\ userProfile \in {NoProfile, Student}
    /\ InitComponent

NextProfile ==
    \/ ConnectionTest
    \/ NextFetch
    \/ ProfileLoaded
    \/ ProfileEffect
    \/ HandleLogout
    \/ \E i \in Slots : ServeSignOut(i)
    \/ \E i \in Slots : HandleLogoutDone(i)

SpecProfile == InitProfile /\ [][NextProfile]_vars

\* the feedback and the complaint form, submitted whatever the state of the
\* submit button
FormTitles       == {<<" ">>, <<"t">>}
PaddedDescription == <<" ", " ", " ", "l", "a", "t", "e", " ", " ", " ", " ">>
FormDescriptions == {<<" ">>, PaddedDescription, LongDescription}
FormRoutes       == {<<" ", "7", " ">>}
FormTimes        == {<<" ">>}
FormCategories   == {"delay"}
FormPriorities   == {"urgent"}

InitForm ==
    /\ db_bus_schedules = DashSchedules
    /\ db_feedback = <<ForeignFeedback>>
    /\ db_complaints = <<>>
    /\ db_users = {}
    /\ authSession = [none |-> TRUE]
    /\ configured = TRUE
    /\ page = "dashboard"
    /\ revision = "supabase.ts"
    /\ userTab \in {"feedback", "complaints"}
    /\ userProfile = Student
    /\ InitComponent

\* the feedback tab alone, one submit at a time
NextFeedback ==
    \/ ConnectionTest
    \/ NextFetch
    \/ \E tab \in {"schedules", "feedback"} : SetActiveTab(tab)
    \/ \E v \in FeedbackInputs : SetFeedbackMessage(v)
    \/ RequestFeedbackSubmit /\ ~feedbackLoading
    \/ \E i \in Slots : ServeInsertFeedback(i)
    \/ \E i \in Slots : HandleFeedbackSubmitInsert(i)
    \/ FeedbackTimerFires

InitFeedback == InitForm /\ userTab = "feedback"

SpecFeedback == InitFeedback /\ [][NextFeedback]_vars

\* the feedback tab when every query of fetchData is answered and the
\* bus_schedules and feedback queries are not rejected, so that each fetchData
\* gets to store what its feedback query returned
NextRace ==
    \/ ConnectionTest
    \/ MountEffect
    \/ Render
    \/ \E i \in Slots : ServeSelectSchedules(i) /\ inv'[i].resp.kind = "ok"
    \/ \E i \in Slots : ServeSelectFeedback(i) /\ inv'[i].resp.kind = "ok"
    \/ \E i \in Slots : ServeSelectComplaints(i)
    \/ \E i \in Slots : FetchDataSchedules(i)
    \/ \E i \in Slots : FetchDataFeedback(i)
    \/ \E i \in Slots : FetchDataComplaints(i)
    \/ SetActiveTab("feedback")
    \/ \E v \in {<<"o", "k">>} : SetFeedbackMessage(v)
    \/ RequestFeedbackSubmit
    \/ \E i \in Slots : ServeInsertFeedback(i)
    \/ \E i \in Slots : HandleFeedbackSubmitInsert(i)

SpecRace == InitFeedback /\ [][NextRace]_vars

\* the complaints tab alone, title and description typed in
NextComplaint ==
    \/ ConnectionTest
    \/ NextFetch
    \/ \E tab \in {"schedules", "complaints"} : SetActiveTab(tab)
    \/ OpenComplaintForm
    \/ CloseComplaintForm
    \/ \E v \in FormTitles : SetComplaintField("title", v)
    \/ \E v \in FormDescriptions : SetComplaintField("description", v)
    \/ RequestComplaintSubmit
    \/ \E i \in Slots : ServeInsertComplaint(i)
    \/ \E i \in Slots : HandleComplaintSubmitInsert(i)
    \/ \E i \in Slots : HandleComplaintSubmitFetched(i)
    \/ ComplaintTimerFires

InitComplaint == InitForm /\ userTab = "complaints"

SpecComplaint == InitComplaint /\ [][NextComplaint]_vars

\* the complaint form with the optional fields and the two selects
NextPayload ==
    \/ NextFetch
    \/ SetActiveTab("complaints")
    \/ OpenComplaintForm
    \/ \E v \in {<<"t">>} : SetComplaintField("title", v)
    \/ \E v \in {PaddedDescription, LongDescription} : SetComplaintField("description", v)
    \/ \E v \in FormRoutes : SetComplaintField("bus_route", v)
    \/ \E v \in FormTimes : SetComplaintField("incident_time", v)
    \/ \E v \in FormCategories : SetComplaintField("category", v)
    \/ \E v \in FormPriorities : SetComplaintField("priority", v)
    \/ RequestComplaintSubmit
    \/ \E i \in Slots : ServeInsertComplaint(i)
    \/ \E i \in Slots : HandleComplaintSubmitInsert(i)
    \/ \E i \in Slots : HandleComplaintSubmitFetched(i)

InitPayload == InitComplaint /\ TestOver

SpecPayload == InitPayload /\ [][NextPayload]_vars

\* ================================================= Google OAuth wrappers
Revisions == {"supabase.ts", "part_000", "part_001"}

\* String.prototype.toUpperCase, on the characters of a user id
ToUpperChar(c) ==
    CASE c = "a" -> "A" [] c = "b" -> "B" [] c = "c" -> "C"
      [] c = "d" -> "D" [] c = "e" -> "E" [] c = "f" -> "F"
      [] OTHER   -> c

toUpperCase(s) == [i \in 1..Len(s) |-> ToUpperChar(s[i])]

\* String.prototype.substring(0, n)
substring(s, n) == SubSeq(s, 1, IF Len(s) < n THEN Len(s) ELSE n)

\* message?.includes(needle): undefined (falsy) when message is undefined
MessageIncludes(message, needle) == message # Null /\ includes(message, needle)

Needle_not_enabled  == <<"n", "o", "t", " ", "e", "n", "a", "b", "l", "e", "d">>
Needle_provider     == <<"p", "r", "o", "v", "i", "d", "e", "r">>
Needle_redirect     == <<"r", "e", "d", "i", "r", "e", "c", "t">>
Needle_url          == <<"u", "r", "l">>
Needle_client_id    == <<"c", "l", "i", "e", "n", "t", "_", "i", "d">>
Needle_client       == <<"c", "l", "i", "e", "n", "t">>
Needle_unauthorized == <<"u", "n", "a", "u", "t", "h", "o", "r", "i", "z", "e", "d">>
Needle_invalid      == <<"i", "n", "v", "a", "l", "i", "d">>

\* error messages of the auth server, as texts the wrappers may be handed
OAuthMessages ==
    {<<"p", "r", "o", "v", "i", "d", "e", "r", " ", "r", "e", "d", "i", "r", "e", "c", "t">>,
     <<"P", "r", "o", "v", "i", "d", "e", "r", " ", "i", "s", " ", "n", "o", "t", " ", "e", "n", "a", "b", "l", "e", "d">>,
     <<"i", "n", "v", "a", "l", "i", "d", " ", "r", "e", "d", "i", "r", "e", "c", "t", " ", "u", "r", "l">>,
     <<"I", "n", "v", "a", "l", "i", "d", " ", "R", "e", "d", "i", "r", "e", "c", "t", " ", "U", "R", "L">>,
     <<"b", "a", "d", " ", "u", "r", "l", " ", "f", "o", "r", " ", "c", "l", "i", "e", "n", "t">>,
     <<"i", "n", "v", "a", "l", "i", "d", " ", "c", "l", "i", "e", "n", "t">>,
     <<"u", "n", "a", "u", "t", "h", "o", "r", "i", "z", "e", "d">>,
     <<"n", "e", "t", "w", "o", "r", "k", " ", "t", "i", "m", "e", "o", "u", "t">>}

\* messages of the exceptions signInWithOAuth may throw
OAuthThrown ==
    {<<"P", "r", "o", "v", "i", "d", "e", "r", " ", "i", "s", " ", "n", "o", "t", " ", "e", "n", "a", "b", "l", "e", "d">>,
     <<"m", "i", "s", "s", "i", "n", "g", " ", "c", "l", "i", "e", "n", "t", "_", "i", "d">>,
     <<"i", "n", "v", "a", "l", "i", "d", " ", "c", "l", "i", "e", "n", "t">>,
     <<"n", "e", "t", "w", "o", "r", "k", " ", "t", "i", "m", "e", "o", "u", "t">>}

SignInNotConfigured ==
    <<Lit("Supabase is not properly configured. Please contact the administrator.")>>

SignInNotEnabled(rev) ==
    IF rev = "part_001"
    THEN <<Lit("Google Sign-In is not enabled. Please contact the administrator to enable Google OAuth in Supabase.")>>
    ELSE <<Lit("Google Sign-In is not enabled in Supabase. Please contact the administrator to enable the Google OAuth provider in the Supabase dashboard.")>>

SignInRedirect(rev) ==
    IF rev = "part_001"
    THEN <<Lit("Google Sign-In redirect URL is not configured properly. Please contact the administrator.")>>
    ELSE <<Lit("Google Sign-In redirect URL is not configured properly. Please contact the administrator to add the correct redirect URLs in Supabase.")>>

SignInClient(rev) ==
    IF rev = "part_001"
    THEN <<Lit("Google OAuth client is not configured. Please contact the administrator.")>>
    ELSE <<Lit("Google OAuth client is not configured. Please contact the administrator to set up Google OAuth credentials in Supabase.")>>

SignInInvalid ==
    <<Lit("Google OAuth configuration is invalid. Please contact the administrator to verify the Google OAuth settings.")>>

\* `Google Sign-In failed: ${error.message}. Please try again or ...`
SignInFailed(rev, message) ==
    <<Lit("Google Sign-In failed: "), Val(message),
      Lit(IF rev = "part_001"
          THEN ". Please try again or contact support."
          ELSE ". Please try again or contact support if the issue persists.")>>

SignInUnexpected ==
    <<Lit("An unexpected error occurred with Google Sign-In. Please try again or use email/password login.")>>

\* return { error: { message }, needsSetup: true }
NeedsSetup(message) == [error |-> [message |-> message], needsSetup |-> TRUE]

\* mutant: the redirect test comes before the not-enabled test
SignInError_RedirectFirst(rev, message) ==
    IF MessageIncludes(message, Needle_redirect) \/ MessageIncludes(message, Needle_url)
    THEN NeedsSetup(SignInRedirect(rev))
    ELSE IF \/ MessageIncludes(message, Needle_not_enabled)
            \/ MessageIncludes(message, Needle_provider)
    THEN NeedsSetup(SignInNotEnabled(rev))
    ELSE IF \/ MessageIncludes(message, Needle_client_id)
            \/ MessageIncludes(message, Needle_client)
    THEN NeedsSetup(SignInClient(rev))
    ELSE IF /\ rev # "part_001"
            /\ \/ MessageIncludes(message, Needle_unauthorized)
               \/ MessageIncludes(message, Needle_invalid)
    THEN NeedsSetup(SignInInvalid)
    ELSE [error |-> [message |-> SignInFailed(rev, message)]]

\* the if / else-if chain on error.message of signInWithGoogle; part_001 has no
\* unauthorized / invalid branch
SignInError(rev, message) ==
    IF \/ MessageIncludes(message, Needle_not_enabled)
       \/ MessageIncludes(message, Needle_provider)
    THEN NeedsSetup(SignInNotEnabled(rev))
    ELSE IF MessageIncludes(message, Needle_redirect) \/ MessageIncludes(message, Needle_url)
    THEN NeedsSetup(SignInRedirect(rev))
    ELSE IF \/ MessageIncludes(message, Needle_client_id)
            \/ MessageIncludes(message, Needle_client)
    THEN NeedsSetup(SignInClient(rev))
    ELSE IF /\ rev # "part_001"
            /\ \/ MessageIncludes(message, Needle_unauthorized)
               \/ MessageIncludes(message, Needle_invalid)
    THEN NeedsSetup(SignInInvalid)
    ELSE [error |-> [message |-> SignInFailed(rev, message)]]

\* mutant: the catch block lets the exception go on
SignInCaught_Rethrow(err) == [rejected |-> err]

\* catch (err) { console.error(...); return { error: { message } } }
SignInCaught(err) == [error |-> [message |-> SignInUnexpected]]

\* mutant: a returned error is tried once more
SignInAfterError_Retry(i) ==
    IF inv[i].writes < 2
    THEN /\ inv' = [inv EXCEPT ![i].resp = Pending, ![i].writes = @ + 1]
         /\ returned' = NoReturn
    ELSE Return(i, SignInError(revision, inv[i].resp.error.message))

\* signInWithGoogle on `if (error)`: classify and return
SignInAfterError(i) == Return(i, SignInError(revision, inv[i].resp.error.message))

\* the first console.log of signInWithGoogle
SignInStarted(rev) ==
    IF rev = "part_001" THEN "Starting Google Sign-In process..."
    ELSE "Attempting Google Sign-In..."

\* signInWithGoogle, from the call to the await of signInWithOAuth
SignInWithGoogle ==
    /\ page = "login"
    /\ SpareSlots >= 1
    /\ IF ~configured
       THEN /\ returned' = [fn |-> "signInWithGoogle",
                            result |-> NeedsSetup(SignInNotConfigured),
                            after |-> Pending, writes |-> 0]
            /\ console' = {SignInStarted(revision)}
            /\ UNCHANGED inv
       ELSE /\ inv' = [inv EXCEPT ![FirstFree(inv)] =
                         [FreeInv EXCEPT !.kind = "signInWithGoogle",
                                         !.pc = "signInWithOAuth",
                                         !.req = [op |-> "signInWithOAuth", table |-> "auth"],
                                         !.writes = @ + 1]]
            /\ console' = {SignInStarted(revision), "Redirect URL:"}
            /\ returned' = NoReturn
    /\ UNCHANGED <<backendVars, dashVars>>

\* supabase.auth.signInWithOAuth({provider: 'google', ...}) answers {data, error}
\* or throws
ServeSignInWithOAuth(i) ==
    /\ Outstanding(i, "signInWithOAuth", "auth")
    /\ \E r \in {[kind |-> "ok", data |-> [provider |-> "google", url |-> "accounts.google.com"]]}
                \cup {[kind |-> "error", error |-> [message |-> m, code |-> "400"]] :
                         m \in OAuthMessages \cup {Null}}
                \cup {[kind |-> "throw", error |-> [message |-> m]] :
                         m \in OAuthThrown \cup {Null}} :
           Respond(i, r)
    /\ Silent
    /\ UNCHANGED <<backendVars, dashVars>>

\* signInWithGoogle after `await supabase.auth.signInWithOAuth(...)`
SignInWithGoogleDone(i) ==
    /\ Resumable(i, "signInWithGoogle", "signInWithOAuth")
    /\ LET r == inv[i].resp
       IN  CASE r.kind = "throw" ->
                  /\ console' = {"Unexpected Google Sign-In error:"}
                  /\ Return(i, SignInCaught(r.error))
             [] r.kind = "error" ->
                  /\ console' = {"Google OAuth error:"}
                  /\ SignInAfterError(i)
             [] OTHER ->
                  \* part_001 does not log the data
                  /\ console' = {"Google Sign-In initiated successfully"}
                                  \cup (IF revision = "part_001" THEN {}
                                        ELSE {"OAuth data:"})
                  /\ Return(i, [data |-> r.data])
    /\ UNCHANGED <<backendVars, dashVars>>

\* ------------------------------------------------ checkGoogleOAuthConfig
ConfigNotConfigured ==
    <<Lit("Supabase is not properly configured. Please set up your Supabase project first.")>>
ConfigConnectionError(message) == <<Lit("Supabase connection error: "), Val(message)>>
ConfigCheckFailed(message)     == <<Lit("Configuration check failed: "), Val(message)>>
ConfigAuthError(message)       == <<Lit("Auth system error: "), Val(message)>>
ConfigProviderError ==
    <<Lit("Google OAuth is not properly configured in Supabase. Please check your provider settings.")>>

NotConfiguredResult(message) == [isConfigured |-> FALSE, error |-> message]

\* the inner catch of supabase.ts: the tests on oauthError.message
OAuthErrorLooksLikeConfig(message) ==
    \/ MessageIncludes(message, Needle_not_enabled)
    \/ MessageIncludes(message, Needle_provider)
    \/ MessageIncludes(message, Needle_client_id)

\* checkGoogleOAuthConfig (supabase.ts and part_000), up to the await of getSession
CheckGoogleOAuthConfig ==
    /\ page = "login"
    /\ revision \in {"supabase.ts", "part_000"}
    /\ SpareSlots >= 1
    /\ IF ~configured
       THEN /\ returned' = [fn |-> "checkGoogleOAuthConfig",
                            result |-> NotConfiguredResult(ConfigNotConfigured),
                            after |-> Pending, writes |-> 0]
            /\ UNCHANGED inv
       ELSE /\ inv' = [inv EXCEPT ![FirstFree(inv)] =
                         [FreeInv EXCEPT !.kind = "checkGoogleOAuthConfig",
                                         !.pc = "getSession",
                                         !.req = [op |-> "getSession", table |-> "auth"]]]
            /\ returned' = NoReturn
    /\ console' = {}
    /\ UNCHANGED <<backendVars, dashVars>>

\* checkGoogleOAuthConfig after `await supabase.auth.getSession()`
CheckConfigSession(i) ==
    /\ Resumable(i, "checkGoogleOAuthConfig", "getSession")
    /\ LET r == inv[i].resp
       IN  CASE r.kind = "throw" ->
                  /\ Return(i, NotConfiguredResult(
                                   IF revision = "part_000"
                                   THEN ConfigAuthError(r.error.message)
                                   ELSE ConfigCheckFailed(r.error.message)))
                  /\ console' = {}
             [] r.kind = "error" ->
                  /\ Return(i, NotConfiguredResult(ConfigConnectionError(r.error.message)))
                  /\ console' = {}
             [] OTHER ->
                  IF revision = "part_000"
                  THEN /\ console' = {"Supabase auth is working, assuming Google OAuth might be configured"}
                       /\ Return(i, [isConfigured |-> TRUE])
                  ELSE \* the test call of supabase.ts
                       /\ inv' = [inv EXCEPT ![i].pc = "signInWithOAuth",
                                             ![i].req = [op |-> "signInWithOAuth",
                                                         table |-> "auth"],
                                             ![i].resp = Pending,
                                             ![i].writes = @ + 1]
                       /\ returned' = NoReturn
                       /\ console' = {}
    /\ UNCHANGED <<backendVars, dashVars>>

\* checkGoogleOAuthConfig of supabase.ts after the test signInWithOAuth
CheckConfigOAuth(i) ==
    /\ Resumable(i, "checkGoogleOAuthConfig", "signInWithOAuth")
    /\ LET r == inv[i].resp
       IN  IF r.kind = "throw" /\ OAuthErrorLooksLikeConfig(r.error.message)
           THEN Return(i, NotConfiguredResult(ConfigProviderError))
           ELSE Return(i, [isConfigured |-> TRUE])
    /\ console' = {}
    /\ UNCHANGED <<backendVars, dashVars>>

\* ----------------------- handleGoogleCallback, createUserProfileFromGoogle
\* a session object whose user is missing: the `!session.user` of the callback
SessionWithoutUser == [access_token |-> "t"]
HasUser(s)  == "user" \in DOMAIN s

\* a falsy string: undefined or ''
Falsy(x) == x = Null \/ x = <<>>

\* googleData.full_name || googleData.name || 'Google User'
FullName(user) ==
    IF ~Falsy(user.user_metadata.full_name) THEN user.user_metadata.full_name
    ELSE IF ~Falsy(user.user_metadata.name) THEN user.user_metadata.name
    ELSE <<"G", "o", "o", "g", "l", "e", " ", "U", "s", "e", "r">>

\* `GOOGLE_${user.id.substring(0, 8).toUpperCase()}`
TempUniversityId(user) == <<"G", "O", "O", "G", "L", "E", "_">> \o toUpperCase(substring(user.id, IdPrefix))

\* profileData of createUserProfileFromGoogle
GoogleProfileData(user) ==
    [id |-> user.id, email |-> user.email, name |-> FullName(user),
     university_id |-> TempUniversityId(user), mobile |-> <<>>,
     gender |-> <<"M", "a", "l", "e">>, role |-> "student"]

\* createUserProfileFromGoogle(user), up to the await of the insert
CreateUserProfileCall(user, parent) ==
    [FreeInv EXCEPT !.kind = "createUserProfileFromGoogle", !.pc = "insert",
                    !.req = [op |-> "insert", table |-> "users",
                             row |-> GoogleProfileData(user)],
                    !.parent = parent,
                    !.writes = @ + 1]

\* handleGoogleCallback (part_001), up to the await of getSession
HandleGoogleCallback ==
    /\ page = "login"
    /\ revision = "part_001"
    /\ SpareSlots >= 2
    /\ inv' = [inv EXCEPT ![FirstFree(inv)] =
                 [FreeInv EXCEPT !.kind = "handleGoogleCallback", !.pc = "getSession",
                                 !.req = [op |-> "getSession", table |-> "auth"]]]
    /\ console' = {"Handling Google OAuth callback..."}
    /\ returned' = NoReturn
    /\ UNCHANGED <<backendVars, dashVars>>

\* mutant: a missing session is let through as a success
CallbackSession_NoSessionSucceeds(i) ==
    /\ Resumable(i, "handleGoogleCallback", "getSession")
    /\ LET r == inv[i].resp
       IN  CASE r.kind = "throw" ->
                  /\ console' = {"Unexpected error in Google callback:"}
                  /\ Return(i, [success |-> FALSE, error |-> r.error])
             [] r.kind = "error" ->
                  /\ console' = {"Session error:"}
                  /\ Return(i, [success |-> FALSE, error |-> r.error])
             [] OTHER ->
                  IF ~HasUser(r.data.session)
                  THEN /\ console' = {"No session found"}
                       /\ Return(i, [success |-> TRUE])
                  ELSE /\ console' = {"User from session:"}
                       /\ inv' = [inv EXCEPT ![i].pc = "select",
                                             ![i].req = [op |-> "select", table |-> "users",
                                                         id |-> r.data.session.user.id],
                                             ![i].resp = Pending,
                                             ![i].env = [user |-> r.data.session.user]]
                       /\ returned' = NoReturn
    /\ UNCHANGED <<backendVars, dashVars>>

\* handleGoogleCallback after `await supabase.auth.getSession()`
CallbackSession(i) ==
    /\ Resumable(i, "handleGoogleCallback", "getSession")
    /\ LET r == inv[i].resp
       IN  CASE r.kind = "throw" ->
                  /\ console' = {"Unexpected error in Google callback:"}
                  /\ Return(i, [success |-> FALSE, error |-> r.error])
             [] r.kind = "error" ->
                  /\ console' = {"Session error:"}
                  /\ Return(i, [success |-> FALSE, error |-> r.error])
             [] OTHER ->
                  IF ~HasUser(r.data.session)
                  THEN /\ console' = {"No session found"}
                       /\ Return(i, [success |-> FALSE,
                                     error |-> [message |-> <<Lit("No session found")>>]])
                  ELSE /\ console' = {"User from session:"}
                       /\ inv' = [inv EXCEPT ![i].pc = "select",
                                             ![i].req = [op |-> "select", table |-> "users",
                                                         id |-> r.data.session.user.id],
                                             ![i].resp = Pending,
                                             ![i].env = [user |-> r.data.session.user]]
                       /\ returned' = NoReturn
    /\ UNCHANGED <<backendVars, dashVars>>

NoRows       == [message |-> <<"n", "o", " ", "r", "o", "w", "s">>, code |-> "PGRST116"]
DuplicateKey == [message |-> <<"d", "u", "p", "l", "i", "c", "a", "t", "e", " ", "k", "e", "y">>, code |-> "23505"]

\* .from('users').select('*').eq('id', id).single(): the row, or the error
\* PGRST116 when there is none
ServeSelectUser(i) ==
    /\ Outstanding(i, "select", "users")
    /\ LET rows == {u \in db_users : u.id = inv[i].req.id}
       IN  \E r \in (IF rows = {} THEN {[kind |-> "error", error |-> NoRows]}
                     ELSE {[kind |-> "ok", data |-> u] : u \in rows})
                    \cup {AnError} \cup ThrownResponses :
               Respond(i, r)
    /\ Silent
    /\ UNCHANGED <<backendVars, dashVars>>

\* mutant: every error of the lookup is taken for "no row"
LookupFailed_Never(r) == FALSE

\* profileError && profileError.code !== 'PGRST116'
LookupFailed(r) == r.kind = "error" /\ r.error.code # "PGRST116"

\* handleGoogleCallback after the lookup in users
CallbackProfile(i) ==
    /\ Resumable(i, "handleGoogleCallback", "select")
    /\ LET r    == inv[i].resp
           user == inv[i].env.user
       IN  CASE r.kind = "throw" ->
                  /\ console' = {"Unexpected error in Google callback:"}
                  /\ Return(i, [success |-> FALSE, error |-> r.error])
             [] r.kind # "throw" /\ LookupFailed(r) ->
                  /\ console' = {"Error checking existing profile:"}
                  /\ Return(i, [success |-> FALSE, error |-> r.error])
             [] OTHER ->
                  IF r.kind = "error"      \* existingProfile is null
                  THEN /\ console' = {"No existing profile found, creating new one...",
                                      "Creating user profile from Google data:",
                                      "Profile data to insert:"}
                       /\ LET g == [inv EXCEPT ![i].pc = "create", ![i].req = NoReq,
                                               ![i].resp = Pending]
                          IN  inv' = [g EXCEPT ![FirstFree(g)] =
                                                   CreateUserProfileCall(user, i)]
                       /\ returned' = NoReturn
                  ELSE /\ console' = {"Existing profile found:"}
                       /\ Return(i, [success |-> TRUE, user |-> user])
    /\ UNCHANGED <<backendVars, dashVars>>

\* .from('users').insert([profileData]).select().single(); id is the primary key
ServeInsertUser(i) ==
    /\ Outstanding(i, "insert", "users")
    /\ LET row == inv[i].req.row
       IN  \/ /\ \A u \in db_users : u.id # row.id
              /\ db_users' = db_users \cup {row}
              /\ Respond(i, [kind |-> "ok", data |-> row])
           \/ /\ \E u \in db_users : u.id = row.id
              /\ Respond(i, [kind |-> "error", error |-> DuplicateKey])
              /\ UNCHANGED db_users
           \/ /\ \E r \in {AnError} \cup ThrownResponses : Respond(i, r)
              /\ UNCHANGED db_users
    /\ Silent
    /\ UNCHANGED <<db_bus_schedules, db_feedback, db_complaints, ctxVars, dashVars>>

\* createUserProfileFromGoogle after the insert
CreateUserProfileDone(i) ==
    /\ Resumable(i, "createUserProfileFromGoogle", "insert")
    /\ LET r == inv[i].resp
       IN  CASE r.kind = "throw" ->
                  /\ console' = {"Unexpected error creating user profile:"}
                  /\ Return(i, [success |-> FALSE, error |-> r.error])
             [] r.kind = "error" ->
                  /\ console' = {"Error creating user profile:"}
                  /\ Return(i, [success |-> FALSE, error |-> r.error])
             [] OTHER ->
                  /\ console' = {"User profile created successfully:"}
                  /\ Return(i, [success |-> TRUE])
    /\ UNCHANGED <<backendVars, dashVars>>

\* handleGoogleCallback after `await createUserProfileFromGoogle(user)`
CallbackCreated(i) ==
    /\ Resumable(i, "handleGoogleCallback", "create")
    /\ LET created == inv[i].resp.value
       IN  IF ~created.success
           THEN Return(i, [success |-> FALSE, error |-> created.error])
           ELSE Return(i, [success |-> TRUE, user |-> inv[i].env.user])
    /\ console' = {}
    /\ UNCHANGED <<backendVars, dashVars>>

\* -------------------------------------------------- the login page: Init
UserId == <<"a", "b", "1", "2", "c", "d", "3", "4", "e", "f">>

GoogleUsers ==
    {[id |-> UserId, email |-> <<"a">>, user_metadata |-> md] :
        md \in {[full_name |-> <<"A", " ", "b">>, name |-> <<"B">>],
                [full_name |-> Null, name |-> <<"B">>],
                [full_name |-> Null, name |-> Null]}}

ExistingUser ==
    [id |-> UserId, email |-> <<"a">>, name |-> <<"A", " ", "b">>, university_id |-> <<"c">>,
     mobile |-> <<"b">>, gender |-> <<"M", "a", "l", "e">>, role |-> "student"]

InitAuth ==
    /\ db_bus_schedules = DashSchedules
    /\ db_feedback = <<ForeignFeedback>>
    /\ db_complaints = <<>>
    /\ revision \in Revisions
    /\ configured \in BOOLEAN
    /\ page = "login"
    \* part_001 handles the redirect back from Google: a session may be there,
    \* and the profile row of an earlier sign-in
    /\ IF revision = "part_001"
       THEN /\ db_users \in {{}, {ExistingUser}}
            /\ authSession \in {NoSession, SessionWithoutUser}
                                 \cup {[user |-> u] : u \in GoogleUsers}
       ELSE /\ db_users = {}
            /\ authSession = NoSession
    /\ userTab = "schedules"
    /\ userProfile = Student
    /\ InitRendered
    /\ inv = NoCalls(MaxInv)
    /\ timers = [NoTimers EXCEPT !.connection = IF configured THEN 1 ELSE 0]
    /\ console = LoadMessages(configured)

NextAuth ==
    \/ ConnectionTimerFires
    \/ \E i \in Slots : ConnectionTested(i)
    \/ SignInWithGoogle
    \/ \E i \in Slots : ServeSignInWithOAuth(i)
    \/ \E i \in Slots : SignInWithGoogleDone(i)
    \/ CheckGoogleOAuthConfig
    \/ \E i \in Slots : ServeGetSession(i)
    \/ \E i \in Slots : CheckConfigSession(i)
    \/ \E i \in Slots : CheckConfigOAuth(i)
    \/ HandleGoogleCallback
    \/ \E i \in Slots : CallbackSession(i)
    \/ \E i \in Slots : ServeSelectUser(i)
    \/ \E i \in Slots : CallbackProfile(i)
    \/ \E i \in Slots : ServeInsertUser(i)
    \/ \E i \in Slots : CreateUserProfileDone(i)
    \/ \E i \in Slots : CallbackCreated(i)

SpecAuth == InitAuth /\ [][NextAuth]_vars

\* the login page when only signInWithGoogle is called (it reads neither the
\* session nor the users table), beside the connection test of the load
InitSignIn == InitAuth /\ db_users = {} /\ authSession = NoSession

NextSignIn ==
    \/ ConnectionTimerFires
    \/ \E i \in Slots : ServeGetSession(i)
    \/ \E i \in Slots : ConnectionTested(i)
    \/ SignInWithGoogle
    \/ \E i \in Slots : ServeSignInWithOAuth(i)
    \/ \E i \in Slots : SignInWithGoogleDone(i)

SpecSignIn == InitSignIn /\ [][NextSignIn]_vars

\* the callback page of part_001: handleGoogleCallback, beside the connection
\* test of the load
InitCallback == InitAuth /\ revision = "part_001"

NextCallback ==
    \/ ConnectionTimerFires
    \/ \E i \in Slots : ServeGetSession(i)
    \/ \E i \in Slots : ConnectionTested(i)
    \/ HandleGoogleCallback
    \/ \E i \in Slots : CallbackSession(i)
    \/ \E i \in Slots : ServeSelectUser(i)
    \/ \E i \in Slots : CallbackProfile(i)
    \/ \E i \in Slots : ServeInsertUser(i)
    \/ \E i \in Slots : CreateUserProfileDone(i)
    \/ \E i \in Slots : CallbackCreated(i)

SpecCallback == InitCallback /\ [][NextCallback]_vars

\* the login page with every wrapper, where signInWithOAuth answers with one
\* outcome of each kind: the data, a returned error and a thrown exception
\* (with a message that looks like a configuration problem and one that does not)
OneOfEachKind(r) ==
    r.kind = "ok" \/ r.error.message \in OAuthMessages \cap OAuthThrown

NextOutcomes ==
    \/ ConnectionTimerFires
    \/ \E i \in Slots : ConnectionTested(i)
    \/ SignInWithGoogle
    \/ \E i \in Slots : ServeSignInWithOAuth(i) /\ OneOfEachKind(inv'[i].resp)
    \/ \E i \in Slots : SignInWithGoogleDone(i)
    \/ CheckGoogleOAuthConfig
    \/ \E i \in Slots : ServeGetSession(i)
    \/ \E i \in Slots : CheckConfigSession(i)
    \/ \E i \in Slots : CheckConfigOAuth(i)
    \/ HandleGoogleCallback
    \/ \E i \in Slots : CallbackSession(i)
    \/ \E i \in Slots : ServeSelectUser(i)
    \/ \E i \in Slots : CallbackProfile(i)
    \/ \E i \in Slots : ServeInsertUser(i)
    \/ \E i \in Slots : CreateUserProfileDone(i)
    \/ \E i \in Slots : CallbackCreated(i)

SpecOutcomes == InitAuth /\ [][NextOutcomes]_vars

\* the callback page of part_001 for a user who signed in for the first time:
\* handleGoogleCallback may run MaxCallbacks times at once (each with its
\* createUserProfileFromGoogle), and the backend is reachable: getSession
\* answers the session, the lookup the row or PGRST116, the insert the row or
\* the violation of the primary key
BackendAnswer(r) ==
    \/ r.kind = "ok"
    \/ r.kind = "error" /\ r.error.code \in {NoRows.code, DuplicateKey.code}

InitCallbackRace ==
    /\ db_bus_schedules = DashSchedules
    /\ db_feedback = <<ForeignFeedback>>
    /\ db_complaints = <<>>
    /\ revision = "part_001"
    /\ configured = TRUE
    /\ page = "login"
    /\ db_users = {}
    /\ authSession \in {[user |-> u] : u \in GoogleUsers}
    /\ userTab = "schedules"
    /\ userProfile = Student
    /\ InitRendered
    /\ inv = NoCalls(2 * MaxCallbacks)
    /\ timers = [NoTimers EXCEPT !.connection = 1]
    /\ console = LoadMessages(configured)

NextCallbackRace ==
    \/ ConnectionTimerFires
    \/ \E i \in Slots : ConnectionTested(i)
    \/ HandleGoogleCallback
    \/ \E i \in Slots : ServeGetSession(i) /\ BackendAnswer(inv'[i].resp)
    \/ \E i \in Slots : CallbackSession(i)
    \/ \E i \in Slots : ServeSelectUser(i) /\ BackendAnswer(inv'[i].resp)
    \/ \E i \in Slots : CallbackProfile(i)
    \/ \E i \in Slots : ServeInsertUser(i) /\ BackendAnswer(inv'[i].resp)
    \/ \E i \in Slots : CreateUserProfileDone(i)
    \/ \E i \in Slots : CallbackCreated(i)

SpecCallbackRace == InitCallbackRace /\ [][NextCallbackRace]_vars

\* the application: the login page or the dashboard
Init == InitAuth \/ InitDash
Next == NextAuth \/ NextDash
Spec == Init /\ [][Next]_vars

\* the functions that write on a submit: signInWithGoogle on the login page,
\* the three forms of the dashboard
SpecSubmit == (InitSignIn \/ InitDash) /\ [][NextSignIn \/ NextDash]_vars

\* ==================================================== schedule filtering
Range(q) == {q[k] : k \in DOMAIN q}

SearchedFields(sch) == {sch.time, sch.startingPoint, sch.route, sch.endPoint}

\* the stated condition for a schedule to be listed
Listed(sch, term, ftype) ==
    /\ \/ term = <<>>
       \/ \E f \in SearchedFields(sch) : includes(toLowerCase(f), toLowerCase(term))
    /\ \/ ftype = "all"
       \/ ftype = "regular" /\ sch.scheduleType = "Regular"
       \/ ftype = "friday" /\ sch.scheduleType = "Friday"

\* C1: after a render, a schedule of `schedules` is in filteredSchedules if
\* and only if (searchTerm is empty or its lower case occurs in the lower case
\* of time, startingPoint, route or endPoint) and (filterType is all, or
\* regular with scheduleType Regular, or friday with scheduleType Friday).
C1_FilterIffListed ==
    ~stale =>
        /\ ~filteredSchedules.threw
        /\ \A sch \in Range(schedules) :
               sch \in Range(filteredSchedules.value) <=> Listed(sch, searchTerm, filterType)

\* a mixed-case hit: the typed term matches only after both sides are lower-cased
C1_Witness ==
    /\ ~stale /\ ~filteredSchedules.threw
    /\ searchTerm = <<"a", "b">> /\ filterType = "friday"
    /\ Len(schedules) = 2 /\ Len(filteredSchedules.value) = 1
    /\ \E sch \in Range(schedules) :
           sch.scheduleType = "Friday" /\ sch \notin Range(filteredSchedules.value)

\* C2: with filterType friday every listed schedule has scheduleType Friday
\* and comes from a bus_schedules row with schedule_type Friday; with regular,
\* likewise Regular; whatever the schedules and the search term.
C2_FilterByType ==
    (~stale /\ filterType # "all") =>
        /\ ~filteredSchedules.threw
        /\ \A sch \in Range(filteredSchedules.value) :
               LET want == IF filterType = "friday" THEN "Friday" ELSE "Regular"
               IN  /\ sch.scheduleType = want
                   /\ \E row \in db_bus_schedules :
                          row.id = sch.id /\ row.schedule_type = want

C2_Witness ==
    /\ ~stale /\ ~filteredSchedules.threw
    /\ filterType = "regular" /\ searchTerm = <<"b">>
    /\ Len(filteredSchedules.value) = 1
    /\ \E sch \in Range(schedules) : sch.scheduleType = "Friday"

\* C3: for every list fetchData has put in `schedules`, every search term and
\* every filter type (all of them are reached), the render's filter has
\* yielded a list, no longer than `schedules`, and has thrown nothing.
C3_FilterTotal ==
    /\ ~filteredSchedules.threw
    /\ DOMAIN filteredSchedules.value = 1..Len(filteredSchedules.value)
    /\ ~stale => Len(filteredSchedules.value) <= Len(schedules)

\* rows with null optional columns are listed and a term that matches no
\* field has been searched: every field of every schedule was inspected
C3_Witness ==
    /\ ~stale /\ mounted /\ ~loading
    /\ Len(schedules) = 2
    /\ \A sch \in Range(schedules) : sch.remarks = Null /\ sch.gender = Null
    /\ searchTerm = <<"b", "a">>
    /\ filteredSchedules = Ok(<<>>)

\* f is s with some elements left out
IsSubsequence(f, s) ==
    \E idx \in [1..Len(f) -> 1..Len(s)] :
        /\ \A j, k \in 1..Len(f) : j < k => idx[j] < idx[k]
        /\ \A k \in 1..Len(f) : f[k] = s[idx[k]]

\* a step that computes filteredSchedules
RenderStep == stale /\ ~stale'

\* C4: computing filteredSchedules leaves schedules, searchTerm and filterType
\* as they were; the result is a subsequence of schedules, in order; and it is
\* a function of (schedules, searchTerm, filterType) alone: the listed
\* schedules in the order of `schedules`, whatever was searched before.
C4_FilterPure ==
    [][RenderStep =>
          /\ UNCHANGED <<schedules, searchTerm, filterType>>
          /\ ~filteredSchedules'.threw
          /\ IsSubsequence(filteredSchedules'.value, schedules)
          /\ filteredSchedules'.value =
                 SelectSeq(schedules, LAMBDA sch : Listed(sch, searchTerm, filterType))
      ]_vars

\* both schedules are listed, in the order of `schedules`, which differ in time
C4_Witness ==
    /\ ~stale /\ ~filteredSchedules.threw
    /\ Len(schedules) = 2 /\ Len(filteredSchedules.value) = 2
    /\ searchTerm = <<"b">> /\ filterType = "friday"
    /\ schedules[1].time # schedules[2].time

\* ======================================================= OAuth wrappers
\* the classification as stated: the tests of each case and its explanation,
\* in order
Tiers(rev) ==
    <<[tests |-> {Needle_not_enabled, Needle_provider}, text |-> SignInNotEnabled(rev)],
      [tests |-> {Needle_redirect, Needle_url},         text |-> SignInRedirect(rev)],
      [tests |-> {Needle_client_id, Needle_client},     text |-> SignInClient(rev)]>>
    \o (IF rev \in {"supabase.ts", "part_000"}
        THEN <<[tests |-> {Needle_unauthorized, Needle_invalid}, text |-> SignInInvalid]>>
        ELSE <<>>)

\* the cases one of whose tests the message passes, letter case as is
TierHits(rev, m) ==
    {k \in DOMAIN Tiers(rev) : m # Null /\ \E t \in Tiers(rev)[k].tests : includes(m, t)}

Least(S) == CHOOSE x \in S : \A y \in S : x <= y

\* C5: when signInWithOAuth has returned an error, the result of
\* signInWithGoogle carries the explanation of the first case, in the fixed
\* order, one of whose case-sensitive tests error.message passes, with
\* needsSetup true; when no test passes it carries the generic 'Google Sign-In
\* failed' explanation and no needsSetup.
C5_ClassifiedInOrder ==
    (returned.fn = "signInWithGoogle" /\ returned.after.kind = "error") =>
        LET m    == returned.after.error.message
            hits == TierHits(revision, m)
            res  == returned.result
        IN  IF hits = {}
            THEN /\ DOMAIN res = {"error"}
                 /\ res.error.message = SignInFailed(revision, m)
            ELSE /\ DOMAIN res = {"error", "needsSetup"}
                 /\ res.needsSetup = TRUE
                 /\ res.error.message = Tiers(revision)[Least(hits)].text

\* a message that passes the tests of the second and of the fourth case has
\* been given the redirect-URL explanation
C5_Witness ==
    /\ returned.fn = "signInWithGoogle" /\ returned.after.kind = "error"
    /\ revision = "supabase.ts"
    /\ TierHits(revision, returned.after.error.message) = {2, 4}
    /\ returned.result.error.message = SignInRedirect(revision)
    /\ returned.result.needsSetup

Wrappers == {"signInWithGoogle", "checkGoogleOAuthConfig",
             "createUserProfileFromGoogle", "handleGoogleCallback"}

\* the continuation of wrapper invocation i after its await
ResumeWrapper(i) ==
    \/ SignInWithGoogleDone(i)
    \/ CheckConfigSession(i)
    \/ CheckConfigOAuth(i)
    \/ CallbackSession(i)
    \/ CallbackProfile(i)
    \/ CreateUserProfileDone(i)
    \/ CallbackCreated(i)

\* C6: whatever the SDK call answered (a value, a returned error, a thrown
\* exception), the wrapper awaiting it can go on, and a wrapper that ends
\* resolves to a result object, never rejects: signInWithGoogle's result has
\* exactly one of data and error, checkGoogleOAuthConfig's a boolean
\* isConfigured, createUserProfileFromGoogle's and handleGoogleCallback's a
\* boolean success.
C6_NeverReject ==
    /\ \A i \in Slots :
           (inv[i].kind \in Wrappers /\ inv[i].resp.kind # "pending") =>
               ENABLED ResumeWrapper(i)
    /\ returned.fn \in Wrappers =>
           LET res == returned.result
           IN  /\ "rejected" \notin DOMAIN res
               /\ returned.fn = "signInWithGoogle" =>
                      ("data" \in DOMAIN res) # ("error" \in DOMAIN res)
               /\ returned.fn = "checkGoogleOAuthConfig" =>
                      "isConfigured" \in DOMAIN res /\ res.isConfigured \in BOOLEAN
               /\ returned.fn \in {"createUserProfileFromGoogle", "handleGoogleCallback"} =>
                      "success" \in DOMAIN res /\ res.success \in BOOLEAN

\* signInWithOAuth threw, and signInWithGoogle resolved to an error result
C6_Witness ==
    /\ returned.fn = "signInWithGoogle" /\ returned.after.kind = "throw"
    /\ DOMAIN returned.result = {"error"}

\* a text with no interpolated value in it
IsStatic(message) == \A k \in DOMAIN message : "lit" \in DOMAIN message[k]

\* C7 as stated: every error message signInWithGoogle returns and every value
\* handleComplaintSubmit stores in complaintError is a static string, with no
\* text of the backend's error in it.
C7_StaticStrings ==
    /\ IsStatic(complaintError)
    /\ (returned.fn = "signInWithGoogle" /\ "error" \in DOMAIN returned.result) =>
           IsStatic(returned.result.error.message)

\* C7 amended: these messages are static strings except for two templates that
\* put the backend's error.message between fixed text: complaintError is
\* 'Failed to submit complaint: <error.message>' when the complaints insert
\* returned an error, and signInWithGoogle returns 'Google Sign-In failed:
\* <error.message>. Please try again or ...' when signInWithOAuth returned an
\* error that passes none of the classification tests; what follows a thrown
\* exception is static.
C7_StaticOrTemplate ==
    [][/\ (complaintError' # complaintError /\ ~IsStatic(complaintError')) =>
              /\ returned'.fn = "handleComplaintSubmit"
              /\ returned'.after.kind = "error"
              /\ complaintError' = <<Lit("Failed to submit complaint: "),
                                     Val(returned'.after.error.message)>>
       /\ (/\ returned'.fn = "signInWithGoogle"
           /\ "error" \in DOMAIN returned'.result
           /\ ~IsStatic(returned'.result.error.message)) =>
              /\ returned'.after.kind = "error"
              /\ TierHits(revision, returned'.after.error.message) = {}
              /\ returned'.result.error.message =
                     SignInFailed(revision, returned'.after.error.message)
      ]_vars

\* the complaints insert returned an error and its text is in the banner
C7_Witness ==
    /\ returned.fn = "handleComplaintSubmit" /\ returned.after.kind = "error"
    /\ complaintError = <<Lit("Failed to submit complaint: "),
                          Val(returned.after.error.message)>>

\* the handler `fn` ends in this step after its write failed
Fails(fn) == returned'.fn = fn /\ returned'.after.kind \in {"error", "throw"}

\* C8: the step in which handleComplaintSubmit ends after the complaints insert
\* returned an error or threw logs to the console, leaves complaintError
\* non-empty and complaintSuccess empty, and changes neither the form fields,
\* nor showComplaintForm, nor the complaints list; the step in which
\* handleFeedbackSubmit (handleProfileUpdate) ends after a failed insert
\* (update) logs to the console and changes neither feedbackMessage
\* (profileForm) nor a success message (the editing mode).
C8_FailurePaths ==
    [][/\ Fails("handleComplaintSubmit") =>
              /\ console' # {}
              /\ complaintError' # Empty
              /\ complaintSuccess' = Empty
              /\ UNCHANGED <<complaintForm, showComplaintForm, complaints>>
       /\ Fails("handleFeedbackSubmit") =>
              /\ console' # {}
              /\ UNCHANGED <<feedbackMessage, feedbackSuccess>>
       /\ Fails("handleProfileUpdate") =>
              /\ console' # {}
              /\ UNCHANGED <<profileForm, isEditingProfile>>
      ]_vars

\* the complaints insert threw: the banner is up over the open, filled-in form
C8_Witness ==
    /\ returned.fn = "handleComplaintSubmit" /\ returned.after.kind = "throw"
    /\ complaintError = ComplaintUnexpected
    /\ showComplaintForm
    /\ complaintForm.description = LongDescription
    /\ complaints = <<>>

Writers == {"handleFeedbackSubmit", "handleComplaintSubmit", "handleProfileUpdate",
            "signInWithGoogle"}

\* C9: an invocation of handleFeedbackSubmit, handleComplaintSubmit or
\* handleProfileUpdate has issued at most one insert / update, and an
\* invocation of signInWithGoogle at most one signInWithOAuth call, while it
\* runs and when it ends, whatever the request's outcome.
C9_NoRetries ==
    /\ \A i \in Slots : inv[i].kind \in Writers => inv[i].writes <= 1
    /\ returned.fn \in Writers => returned.writes <= 1

\* signInWithGoogle ended on a returned error, having called once
C9_Witness ==
    /\ returned.fn = "signInWithGoogle" /\ returned.after.kind = "error"
    /\ returned.writes = 1

\* the insert requests into users that the step issues
NewUserInserts ==
    {j \in Slots : /\ inv[j].kind = "free"
                   /\ inv'[j].req.op = "insert" /\ inv'[j].req.table = "users"}

\* C10: the step of handleGoogleCallback after the profile lookup issues an
\* insert into users, of a row with the session user's id, exactly when the
\* lookup found no row (PGRST116), and none when it returned a row; no other
\* step issues one; and when handleGoogleCallback returns {success: true, user}
\* the users table holds a row with that user's id.
C10_ProfileAutoCreation ==
    [][/\ \A i \in Slots :
              (/\ inv[i].kind = "handleGoogleCallback" /\ inv[i].pc = "select"
               /\ inv[i].resp.kind # "pending"
               /\ inv'[i] # inv[i]) =>
                  LET r     == inv[i].resp
                      noRow == r.kind = "error" /\ r.error.code = "PGRST116"
                  IN  /\ noRow <=> NewUserInserts # {}
                      /\ r.kind = "ok" => NewUserInserts = {}
                      /\ \A j \in NewUserInserts :
                             /\ inv'[j].parent = i
                             /\ inv'[j].req.row.id = inv[i].env.user.id
       /\ NewUserInserts # {} =>
              \E i \in Slots : /\ inv[i].kind = "handleGoogleCallback"
                               /\ inv[i].pc = "select" /\ inv'[i].pc = "create"
       /\ (returned'.fn = "handleGoogleCallback" /\ returned'.result.success) =>
              /\ "user" \in DOMAIN returned'.result
              /\ \E u \in db_users' : u.id = returned'.result.user.id
      ]_vars

\* the lookup found no row, the row was created with the fallback name, and
\* handleGoogleCallback returned success
C10_Witness ==
    /\ returned.fn = "handleGoogleCallback" /\ returned.result.success
    /\ returned.after.kind = "returned"
    /\ \E u \in db_users :
           /\ u.id = returned.result.user.id
           /\ u.name = <<"G", "o", "o", "g", "l", "e", " ", "U", "s", "e", "r">>
           /\ u.university_id = <<"G", "O", "O", "G", "L", "E", "_",
                                  "A", "B", "1", "2", "C", "D", "3", "4">>

\* ------------------------------------------------------------------ C11
ComplaintInserts ==
    {i \in Slots : inv[i].req.op = "insert" /\ inv[i].req.table = "complaints"}

NullOrTrimmed(x) == x = Null \/ (x # <<>> /\ trim(x) = x)

\* C11: every complaints insert request that handleComplaintSubmit sends has a
\* title that is non-empty after trimming, a trimmed description of at least
\* 10 characters, a category and a priority of the two enumerations, and a
\* bus_route and an incident_time that are each null or a non-empty trimmed
\* string.
C11_InsertPayload ==
    \A i \in ComplaintInserts :
        LET row == inv[i].req.row
        IN  /\ inv[i].kind = "handleComplaintSubmit"
            /\ trim(row.title) # <<>>
            /\ row.description = trim(row.description)
            /\ Len(row.description) >= MinDescription
            /\ row.category \in Categories
            /\ row.priority \in Priorities
            /\ NullOrTrimmed(row.bus_route)
            /\ NullOrTrimmed(row.incident_time)

\* a request is out for a form typed with padding: the description and the
\* route were trimmed, the blank time became null, both selects were changed
C11_Witness ==
    \E i \in ComplaintInserts :
        LET row == inv[i].req.row
        IN  /\ complaintForm.description = LongDescription
            /\ row.description # LongDescription
            /\ complaintForm.bus_route = <<" ", "7", " ">>
            /\ row.bus_route = <<"7">>
            /\ complaintForm.incident_time = <<" ">>
            /\ row.incident_time = Null
            /\ row.category = "delay"
            /\ row.priority = "urgent"

\* ------------------------------------------------------------------ C12
\* the step in which fetchData's bus_schedules query completes successfully
SchedulesFetched ==
    \E i \in Slots : /\ inv[i].kind = "fetchData" /\ inv[i].pc = "schedules"
                      /\ inv[i].resp.kind = "ok"
                      /\ inv'[i].pc = "feedback"

GenderRows(profile) ==
    {r \in db_bus_schedules : r.gender = Null \/ r.gender = profile.gender}

\* C12: once userProfile is available and the schedule fetch has completed
\* successfully (it completes in this step, or schedules already holds what a
\* fetch stored), schedules holds exactly the bus_schedules rows whose gender
\* is null or equals userProfile.gender, whether the component mounted before
\* or after the profile was loaded.
C12_SchedulesForGender ==
    [][(userProfile' # NoProfile /\ (SchedulesFetched \/ schedules' # <<>>))
       => {sch.id : sch \in Range(schedules')}
            = {r.id : r \in GenderRows(userProfile')}]_vars

\* ------------------------------------------------------------------ C13
\* the submit is turned down with `message`: no request goes out and nothing
\* but the two banners changes
RejectedWith(message) ==
    /\ complaintError' = message
    /\ inv' = inv
    /\ UNCHANGED <<db_complaints, complaintLoading, complaintForm, showComplaintForm,
                   complaints>>

\* C13: handleComplaintSubmit validates in a fixed order and rejects without a
\* network call: a blank title gives 'Please provide a title for your
\* complaint'; else a blank description gives 'Please provide a detailed
\* description of the issue'; else a trimmed description under 10 characters
\* gives the 'at least 10 characters' message; in each case no insert is
\* issued, complaintLoading stays as it was (false) and complaintForm,
\* showComplaintForm and complaints are unchanged.
C13_ValidationOrder ==
    [][ComplaintSubmitted =>
          LET title == trim(complaintForm.title)
              description == trim(complaintForm.description)
          IN  /\ title = <<>>
                    => RejectedWith(<<Lit("Please provide a title for your complaint")>>)
              /\ title # <<>> /\ description = <<>>
                    => RejectedWith(
                         <<Lit("Please provide a detailed description of the issue")>>)
              /\ title # <<>> /\ description # <<>> /\ Len(description) < 10
                    => RejectedWith(NeedMoreDetail)]_vars

\* a form with a blank title and a blank description was submitted and turned
\* down for its title
C13_Witness ==
    /\ showComplaintForm
    /\ complaintForm.title = <<" ">>
    /\ complaintForm.description = <<" ">>
    /\ complaintError = NeedTitle
    /\ \A i \in Slots : Available(i)

\* ------------------------------------------------------------------ C14
\* handleComplaintSubmit resumes in this step from an insert that returned
\* no error
ComplaintSaved(i) ==
    /\ inv[i].kind = "handleComplaintSubmit" /\ inv[i].pc = "insert"
    /\ inv[i].resp.kind = "ok"
    /\ inv'[i] # inv[i]

\* the fetchData invocations that start in this step
FetchesStarted ==
    {j \in Slots : inv'[j].kind = "fetchData" /\ inv'[j].pc = "schedules"
                   /\ inv'[j].resp = Pending /\ inv'[j] # inv[j]}

\* C14: after a complaints insert that returns no error, complaintForm is reset
\* to its defaults, showComplaintForm is false, complaintError is empty,
\* complaintSuccess is non-empty, and exactly one fetchData refresh is started
\* after the insert returned: one as the handler resumes, none when it resumes
\* again after that refresh.
C14_AfterSave ==
    [][\A i \in Slots :
          /\ ComplaintSaved(i) =>
                /\ complaintForm' = [title |-> <<>>, description |-> <<>>,
                                     category |-> "other", priority |-> "medium",
                                     bus_route |-> <<>>, incident_time |-> <<>>]
                /\ showComplaintForm' = FALSE
                /\ complaintError' = <<>>
                /\ complaintSuccess' # <<>>
                /\ Cardinality(FetchesStarted) = 1
                /\ \A j \in FetchesStarted : inv'[j].parent = i
          /\ (inv[i].kind = "handleComplaintSubmit" /\ inv[i].pc = "fetchData"
                 /\ inv'[i] # inv[i])
                => FetchesStarted = {}]_vars

\* the complaint was stored and the handler has just resumed: the modal is
\* closed over the default form and the thanks, and the refresh is out
C14_Witness ==
    /\ console = {"Complaint submitted successfully:"}
    /\ Len(db_complaints) = 1
    /\ ~showComplaintForm /\ complaintForm = DefaultComplaintForm
    /\ complaintSuccess = ComplaintThanks
    /\ \E i, j \in Slots : /\ inv[i].kind = "handleComplaintSubmit"
                            /\ inv[j].kind = "fetchData" /\ inv[j].parent = i

\* ------------------------------------------------------------------ C15
HandlerRunning(kind) == \E i \in Slots : inv[i].kind = kind

\* C15: complaintLoading (likewise feedbackLoading) is true only between the
\* start of a submit that passed validation and the end of that handler, and
\* on every path (success, returned error, thrown) it is eventually set back
\* to false, so that the submit button is never left disabled for good.
C15_LoadingBracketed ==
    /\ [](complaintLoading => HandlerRunning("handleComplaintSubmit"))
    /\ [](feedbackLoading => HandlerRunning("handleFeedbackSubmit"))
    /\ (complaintLoading ~> ~complaintLoading)
    /\ (feedbackLoading ~> ~feedbackLoading)

\* handleComplaintSubmit has just ended after its refresh, the flag is down
\* and the form can be opened and submitted again
C15_Witness ==
    /\ returned.fn = "handleComplaintSubmit"
    /\ returned.after.kind = "returned"
    /\ ~complaintLoading
    /\ ~HandlerRunning("handleComplaintSubmit")
    /\ Len(db_complaints) = 1

\* ------------------------------------------------------------------ C16
\* a timer of kind k fires in this step and clears the message while a timer
\* that was set after it is still pending: the five seconds of the submission
\* that set the later timer, whose message or a later one is on screen, are
\* not over
ClearedEarly(k, message) ==
    /\ timers'[k] < timers[k] /\ timers'[k] > 0
    /\ message # <<>> /\ message' = <<>>

\* C16: after a successful complaint (feedback) submission the success message
\* stays for 5 seconds from that submission and is empty afterwards: a timer
\* that fires leaves the message empty, and it never clears the message of a
\* submission whose own timer is still pending; before that only the student
\* clears it.
C16_ShownFiveSeconds ==
    [][/\ timers'.feedback < timers.feedback => feedbackSuccess' = <<>>
       /\ timers'.complaint < timers.complaint => complaintSuccess' = <<>>
       /\ ~ClearedEarly("feedback", feedbackSuccess)
       /\ ~ClearedEarly("complaint", complaintSuccess)]_vars

\* ------------------------------------------------------------------ C17
\* nothing is in flight: every submit handler and every fetchData has ended
Quiet == mounted /\ \A i \in Slots : Available(i)

OwnRows(table) == {k \in 1..Len(table) : table[k].user_id = userProfile.id}

\* C17: after a successful feedback insert, once every fetchData in flight has
\* completed with a successful feedback query, the feedback list in state
\* holds the record just submitted, whatever the interleaving of overlapping
\* fetchData calls and the order of the responses.  (Every fetchData of
\* SpecRace completes its feedback query successfully, and a row is in the
\* table only if its insert was answered without error.)
C17_ListHasNewRecord ==
    Quiet => \A k \in OwnRows(db_feedback) :
                 \E j \in 1..Len(feedback) : feedback[j].id = db_feedback[k].id

\* ------------------------------------------------------------------ C18
\* C18: every fetchData sets loading to true when it starts, and loading is
\* true whenever some fetchData invocation is still in flight (it goes back
\* to false when the invocation ends, whether its queries succeed, return
\* errors or throw).
C18_LoadingWhileFetching ==
    \A i \in Slots : inv[i].kind = "fetchData" => loading

\* ------------------------------------------------------------------ C19
\* fetchData invocation i resumes in this step from the answer to its query
\* of `table`, and the answer is of `kind`
Answered(i, table, kind) ==
    /\ inv[i].kind = "fetchData" /\ inv[i].pc = table
    /\ inv[i].resp.kind = kind
    /\ inv'[i] # inv[i]

\* invocation i has issued its query of `table` and goes on
Issued(i, table) ==
    /\ inv'[i].kind = "fetchData" /\ inv'[i].pc = table
    /\ inv'[i].req.op = "select" /\ inv'[i].req.table = table
    /\ inv'[i].resp = Pending

\* C19: in fetchData the three queries fail independently: when one returns
\* an error its list keeps the value it had, the other two lists are not
\* touched by that step, and the queries that follow are still issued and
\* their lists are set to what they return.
C19_IndependentQueries ==
    [][\A i \in Slots :
          /\ Answered(i, "schedules", "error")
                => UNCHANGED <<schedules, feedback, complaints>> /\ Issued(i, "feedback")
          /\ Answered(i, "feedback", "error")
                => UNCHANGED <<schedules, feedback, complaints>> /\ Issued(i, "complaints")
          /\ Answered(i, "complaints", "error")
                => UNCHANGED <<schedules, feedback, complaints>>
          /\ Answered(i, "schedules", "ok")
                => /\ schedules' = ConvertSchedules(inv[i].resp.data)
                   /\ UNCHANGED <<feedback, complaints>> /\ Issued(i, "feedback")
          /\ Answered(i, "feedback", "ok")
                => /\ feedback' = inv[i].resp.data
                   /\ UNCHANGED <<schedules, complaints>> /\ Issued(i, "complaints")
          /\ Answered(i, "complaints", "ok")
                => complaints' = inv[i].resp.data /\ UNCHANGED <<schedules, feedback>>]_vars

\* the feedback query of a refresh has just returned an error: the list still
\* holds the one row of the fetch before, the table holds two, and the
\* complaints query is out
C19_Witness ==
    /\ console = {"Error fetching feedback:"}
    /\ Len(feedback) = 1
    /\ Cardinality(OwnRows(db_feedback)) = 2
    /\ \E i \in Slots : /\ inv[i].kind = "fetchData" /\ inv[i].pc = "complaints"
                         /\ inv[i].resp = Pending

\* ------------------------------------------------------------------ C20
\* the invocations that start in this step with a feedback insert of `row`
\* as their request
FeedbackInsertsStarted(row) ==
    {j \in Slots : /\ inv'[j] # inv[j]
                   /\ inv'[j].req = [op |-> "insert", table |-> "feedback", row |-> row]
                   /\ inv'[j].resp = Pending}

\* C20: handleFeedbackSubmit with a message that is empty or whitespace-only
\* issues no insert and changes no state; with any other message it issues
\* one feedback insert carrying the user's id and the message; and when it
\* resumes from an insert answered without error it clears feedbackMessage,
\* sets feedbackSuccess and starts a fetchData refresh.
C20_FeedbackSubmit ==
    [][/\ FeedbackSubmitted =>
             IF trim(feedbackMessage) = <<>>
             THEN UNCHANGED <<inv, db_feedback, listVars, loading, searchVars, activeTab,
                              fbVars, cpVars, pfVars, timers, stale>>
             ELSE /\ Cardinality(FeedbackInsertsStarted(
                          [user_id |-> userProfile.id, message |-> feedbackMessage])) = 1
                  /\ Cardinality({j \in Slots : inv'[j] # inv[j]}) = 1
       /\ \A i \in Slots :
             (/\ inv[i].kind = "handleFeedbackSubmit" /\ inv[i].pc = "insert"
              /\ inv[i].resp.kind = "ok"
              /\ inv'[i] # inv[i])
                => /\ feedbackMessage' = <<>>
                   /\ feedbackSuccess' # <<>>
                   /\ Cardinality(FetchesStarted) = 1]_vars

\* the feedback 'ok' was stored and the handler has just ended: the box is
\* empty, the thanks are shown and the refresh is out
C20_Witness ==
    /\ returned.fn = "handleFeedbackSubmit" /\ returned.after.kind = "ok"
    /\ feedbackMessage = <<>> /\ feedbackSuccess = FeedbackThanks
    /\ \E k \in OwnRows(db_feedback) : db_feedback[k].message = <<"o", "k">>
    /\ \E i \in Slots : inv[i].kind = "fetchData" /\ inv[i].pc = "schedules"

\* ------------------------------------------------------------------ C21
\* the answer after which a step of handleGoogleCallback must give up
SessionFailed(i) == inv[i].pc = "getSession" /\ inv[i].resp.kind = "error"
SessionMissing(i) ==
    /\ inv[i].pc = "getSession" /\ inv[i].resp.kind = "ok"
    /\ ~HasUser(inv[i].resp.data.session)
ProfileLookupFailed(i) ==
    /\ inv[i].pc = "select" /\ inv[i].resp.kind = "error"
    /\ inv[i].resp.error.code # "PGRST116"

\* the requests on the users table that the step issues
NewUserRequests ==
    {j \in Slots : inv'[j] # inv[j] /\ inv'[j].req.table = "users"}

\* C21: when getSession answers an error, or a session that is missing or has
\* no user, or the profile lookup answers an error whose code is not PGRST116,
\* the step of handleGoogleCallback that takes the answer returns
\* success: false with that error, issues no insert into users and leaves the
\* users table as it is; up to that step the invocation has called
\* createUserProfileFromGoogle not once. With no session (or no user) the
\* error message is 'No session found' and no request on users is issued.
C21_FailureWithoutProfile ==
    [][\A i \in Slots :
          (/\ inv[i].kind = "handleGoogleCallback"
           /\ inv[i].resp.kind # "pending"
           /\ inv'[i] # inv[i]
           /\ SessionFailed(i) \/ SessionMissing(i) \/ ProfileLookupFailed(i)) =>
              /\ returned'.fn = "handleGoogleCallback"
              /\ ~returned'.result.success
              /\ inv'[i] = FreeInv
              /\ NewUserInserts = {}
              /\ db_users' = db_users
              /\ \A j \in Slots : inv[j].parent # i /\ inv'[j].parent # i
              /\ (SessionFailed(i) \/ ProfileLookupFailed(i)) =>
                     returned'.result.error = inv[i].resp.error
              /\ SessionMissing(i) =>
                     /\ returned'.result.error.message = <<Lit("No session found")>>
                     /\ NewUserRequests = {}
      ]_vars

\* the session has a user who has no row in users, the lookup failed with
\* another error than PGRST116, and handleGoogleCallback returned the failure
C21_Witness ==
    /\ returned.fn = "handleGoogleCallback" /\ ~returned.result.success
    /\ returned.after.kind = "error" /\ returned.after.error.code # "PGRST116"
    /\ returned.result.error = returned.after.error
    /\ console = {"Error checking existing profile:"}
    /\ HasUser(authSession) /\ db_users = {}

\* ------------------------------------------------------------------ C22
\* checkGoogleOAuthConfig of supabase.ts has returned after its test call
TestCallAnswered ==
    /\ revision = "supabase.ts"
    /\ returned.fn = "checkGoogleOAuthConfig" /\ returned.writes = 1

\* the test call failed, with a returned error or an exception
TestCallFailed == returned.after.kind \in {"error", "throw"}

\* C22: when checkGoogleOAuthConfig of supabase.ts returns after its test
\* signInWithOAuth call, the result is isConfigured: false with the 'Google
\* OAuth is not properly configured in Supabase' error if the call failed with
\* an error whose message contains 'not enabled', 'provider' or 'client_id',
\* and isConfigured: true (no error) after any other failure and after success.
C22_ProviderHeuristic ==
    TestCallAnswered =>
        IF TestCallFailed /\ OAuthErrorLooksLikeConfig(returned.after.error.message)
        THEN returned.result = NotConfiguredResult(ConfigProviderError)
        ELSE returned.result = [isConfigured |-> TRUE]

\* ------------------------------------------------------------------ C23
\* the rows of users for the signed-in user
RowsOfSessionUser == {u \in db_users : u.id = authSession.user.id}

\* C23: on the callback page of a signed-in user who had no users row, with
\* the backend reachable and the id unique, however the steps of the
\* handleGoogleCallback invocations interleave, users holds at most one row of
\* that user and every invocation that returns returns success: true.
C23_BothSucceed ==
    /\ Cardinality(RowsOfSessionUser) <= 1
    /\ returned.fn = "handleGoogleCallback" => returned.result.success

=========================================================================
